---- MODULE Spec2Model ----
(***************************************************************************)
(* A model of the pyforest binary trees: BinarySearchTree, AVLTree,        *)
(* RBTree and the right/left/double threaded binary trees.                 *)
(*                                                                         *)
(* One tree instance lives in a heap of node objects.  Every public call   *)
(* (insert, delete) is one action: the whole method body, with the         *)
(* exception it raises (if any) recorded in `status` and the mutations it  *)
(* made before raising kept, as in Python.  A call that never returns is   *)
(* recorded as status "hang".                                              *)
(***************************************************************************)
EXTENDS Integers, Sequences, FiniteSets, TLC

VARIABLES kind, heap, root, size, nil, status, lastOp, model, noDelete, clean,
          budget, distinct

vars == <<kind, heap, root, size, nil, status, lastOp, model, noDelete, clean,
          budget, distinct>>

(***************************************************************************)
(* Bounds.                                                                 *)
(***************************************************************************)
\* keys of the plain binary search tree are 1..MaxKeyBST
MaxKeyBST == 5
\* keys of the balanced trees (AVLTree, RBTree) are 1..MaxKeyBal
MaxKeyBal == 6
\* keys of the threaded trees are 1..MaxKeyThr
MaxKeyThr == 5
\* an insert has MaxData data values to choose from for its key
MaxData == 1
\* spare node objects beyond one per key (objects kept alive by stale links)
Spare == 2
\* delete calls in one run of a tree other than an AVLTree or a
\* DoubleThreadedBinaryTree (a deleted node of an RBTree or of a single
\* threaded tree can stay referenced for ever, one spare object per delete)
MaxDeletes == 2

\* the delete calls of a run that inserts keys already in the tree
MaxDupDeletes == 1

\* the largest key a constructor call is given as its seed
MaxSeedKey == 2

(***************************************************************************)
(* Objects.  None is Python's None; NIL is the RBTree's LeafNode sentinel. *)
(* Node ids 1..MaxNodes are the identities of node objects.                *)
(***************************************************************************)
None == 0
NIL == -1
\* The value of tree.root while the attribute does not exist: the constructor
\* of BinarySearchTree calls __init__ of the TypeVar base_tree.TreeType, which
\* sets no attribute of the tree, so root exists from the first insert on.
Unset == -2

Red == "Red"
Black == "Black"

\* A slot of the heap that holds no live object.
Blank ==
  [used |-> FALSE, key |-> 0, data |-> 0, left |-> None, right |-> None,
   parent |-> None, height |-> 0, color |-> Black, isThread |-> FALSE,
   leftThread |-> FALSE, rightThread |-> FALSE]

\* dataclass Node / AVLNode / RBNode / SingleThreadNode / DoubleThreadNode:
\* the fields a constructor call sets, the others at their defaults.
NewNode(key, data, left, right, parent, color) ==
  [used |-> TRUE, key |-> key, data |-> data, left |-> left, right |-> right,
   parent |-> parent, height |-> 0, color |-> color, isThread |-> FALSE,
   leftThread |-> FALSE, rightThread |-> FALSE]

\* The LeafNode sentinel as constructed: the class attributes left, right,
\* parent = None and color = Black.  An assignment to an attribute of the
\* sentinel sets it on the instance.
NilInit == [left |-> None, right |-> None, parent |-> None, color |-> Black]

(***************************************************************************)
(* The state a method works on: the heap, the tree's attributes, and the   *)
(* outcome so far ("ok" while no exception has been raised).               *)
(***************************************************************************)
Mach(h, r, s, n) == [h |-> h, root |-> r, size |-> s, nil |-> n, st |-> "ok"]

Raise(m, e) == IF m.st = "ok" THEN [m EXCEPT !.st = e] ELSE m

Min(S) == CHOOSE x \in S : \A y \in S : x <= y
Max2(a, b) == IF a >= b THEN a ELSE b

Ids(m) == DOMAIN m.h

Free(m) == {i \in Ids(m) : ~m.h[i].used}

\* The identity of a newly constructed node object: any identity not in use.
\* The slot numbered like the key is taken when it is free, which keeps the
\* same tree stored the same way.
NewId(m, key) == IF key \in Free(m) THEN key ELSE Min(Free(m))

\* Dataclass __eq__ on two node references.  It compares the field tuples,
\* and the tuple comparison takes identical objects as equal; two distinct
\* objects differ in their first field, the key, whenever their keys differ.
NodeEq(a, b) == a = b

\* Attribute reads and writes of the object p (a node, or the sentinel).
Left(m, p) == IF p = NIL THEN m.nil.left ELSE m.h[p].left
Right(m, p) == IF p = NIL THEN m.nil.right ELSE m.h[p].right
Parent(m, p) == IF p = NIL THEN m.nil.parent ELSE m.h[p].parent
Color(m, p) == IF p = NIL THEN m.nil.color ELSE m.h[p].color

SetLeft(m, p, v) ==
  IF p = NIL THEN [m EXCEPT !.nil.left = v] ELSE [m EXCEPT !.h[p].left = v]
SetRight(m, p, v) ==
  IF p = NIL THEN [m EXCEPT !.nil.right = v] ELSE [m EXCEPT !.h[p].right = v]
SetParent(m, p, v) ==
  IF p = NIL THEN [m EXCEPT !.nil.parent = v] ELSE [m EXCEPT !.h[p].parent = v]
SetColor(m, p, v) ==
  IF p = NIL THEN [m EXCEPT !.nil.color = v] ELSE [m EXCEPT !.h[p].color = v]

(***************************************************************************)
(* Objects that no reference reaches are gone (reference counting): a      *)
(* slot is live when the tree's root, or the sentinel, leads to it.        *)
(***************************************************************************)
Refs(m, i) == {m.h[i].left, m.h[i].right, m.h[i].parent} \cap Ids(m)

RECURSIVE ReachFrom(_, _)
ReachFrom(m, S) ==
  LET T == S \cup UNION {Refs(m, i) : i \in S}
  IN IF T = S THEN S ELSE ReachFrom(m, T)

Live(m) ==
  ReachFrom(m, {m.root, m.nil.left, m.nil.right, m.nil.parent} \cap Ids(m))

Collect(m) ==
  [m EXCEPT !.h = [i \in Ids(m) |-> IF i \in Live(m) THEN m.h[i] ELSE Blank]]


\* Recursion and loop budget: more steps than there are objects.  A walk over
\* unchanging links that takes more steps has come back to an object it left.
Fuel(m) == Cardinality(Ids(m)) + 2

(***************************************************************************)
(* BinarySearchTree (binary_search_tree.py).                               *)
(***************************************************************************)
\* A result of a method that returns a value: the outcome and the value.
Ret(st, val) == [st |-> st, val |-> val]

\* _insert with its comparison the wrong way round: smaller keys go right
RECURSIVE BST_insert_flipped(_, _, _, _, _)
BST_insert_flipped(m, key, data, node, fuel) ==
  IF fuel = 0 THEN Raise(m, "RecursionError")
  ELSE IF key = m.h[node].key THEN Raise(m, "ValueError")
  ELSE IF key > m.h[node].key
    THEN IF m.h[node].left # None
           THEN BST_insert_flipped(m, key, data, m.h[node].left, fuel - 1)
           ELSE LET n == NewId(m, key)
                IN [SetLeft(m, node, n) EXCEPT
                      !.h[n] = NewNode(key, data, None, None, node, Black)]
    ELSE IF m.h[node].right # None
           THEN BST_insert_flipped(m, key, data, m.h[node].right, fuel - 1)
           ELSE LET n == NewId(m, key)
                IN [SetRight(m, node, n) EXCEPT
                      !.h[n] = NewNode(key, data, None, None, node, Black)]

RECURSIVE BST_insert(_, _, _, _, _)
BST_insert(m, key, data, node, fuel) ==
  IF fuel = 0 THEN Raise(m, "RecursionError")
  ELSE IF key = m.h[node].key THEN Raise(m, "ValueError")
  ELSE IF key < m.h[node].key
    THEN IF m.h[node].left # None
           THEN BST_insert(m, key, data, m.h[node].left, fuel - 1)
           ELSE LET n == NewId(m, key)
                IN [SetLeft(m, node, n) EXCEPT
                      !.h[n] = NewNode(key, data, None, None, node, Black)]
    ELSE IF m.h[node].right # None
           THEN BST_insert(m, key, data, m.h[node].right, fuel - 1)
           ELSE LET n == NewId(m, key)
                IN [SetRight(m, node, n) EXCEPT
                      !.h[n] = NewNode(key, data, None, None, node, Black)]

RECURSIVE BST_search(_, _, _, _)
BST_search(m, key, node, fuel) ==
  IF fuel = 0 THEN Ret("RecursionError", None)
  ELSE IF key = m.h[node].key THEN Ret("ok", node)
  ELSE IF key < m.h[node].key
    THEN IF m.h[node].left # None
           THEN BST_search(m, key, m.h[node].left, fuel - 1)
           ELSE Ret("KeyError", None)
    ELSE IF m.h[node].right # None
           THEN BST_search(m, key, m.h[node].right, fuel - 1)
           ELSE Ret("KeyError", None)

RECURSIVE BST_get_min(_, _, _)
BST_get_min(m, node, fuel) ==
  IF fuel = 0 THEN Ret("hang", None)
  ELSE IF m.h[node].left # None THEN BST_get_min(m, m.h[node].left, fuel - 1)
  ELSE Ret("ok", node)

\* get_min(): the minimum key, None on a tree of size 0
BSTget_min(m) ==
  IF m.size = 0 THEN Ret("ok", None)
  ELSE IF m.root \notin Ids(m) THEN Ret("AttributeError", None)
  ELSE LET r == BST_get_min(m, m.root, Fuel(m))
       IN IF r.st = "ok" THEN Ret("ok", m.h[r.val].key) ELSE r

\* get_max: while node.right is not None
RECURSIVE BST_get_max(_, _, _)
BST_get_max(m, node, fuel) ==
  IF fuel = 0 THEN Ret("hang", None)
  ELSE IF m.h[node].right # None THEN BST_get_max(m, m.h[node].right, fuel - 1)
  ELSE Ret("ok", node)

\* get_max(): the maximum key, None on a tree of size 0
BSTget_max(m) ==
  IF m.size = 0 THEN Ret("ok", None)
  ELSE IF m.root \notin Ids(m) THEN Ret("AttributeError", None)
  ELSE LET r == BST_get_max(m, m.root, Fuel(m))
       IN IF r.st = "ok" THEN Ret("ok", m.h[r.val].key) ELSE r

\* search(key): the data, None on a tree of size 0.
BSTsearch(m, key) ==
  IF m.size = 0 THEN Ret("ok", None)
  ELSE IF m.root \notin Ids(m) THEN Ret("AttributeError", None)
  ELSE LET r == BST_search(m, key, m.root, Fuel(m))
       IN IF r.st = "ok" THEN Ret("ok", m.h[r.val].data) ELSE r

BSTinsert(m, key, data) ==
  LET m1 == IF m.size = 0
              THEN LET n == NewId(m, key)
                   IN [m EXCEPT !.root = n,
                         !.h[n] = NewNode(key, data, None, None, None, Black)]
              ELSE IF m.root \notin Ids(m) THEN Raise(m, "AttributeError")
              ELSE BST_insert(m, key, data, m.root, Fuel(m))
  IN IF m1.st = "ok" THEN [m1 EXCEPT !.size = m.size + 1] ELSE m1

\* "if x.parent.left == x: x.parent.left = v else: x.parent.right = v"
BSTReplaceInParent(m, x, v) ==
  LET p == m.h[x].parent
  IN IF NodeEq(m.h[p].left, x) THEN SetLeft(m, p, v) ELSE SetRight(m, p, v)

BSTdelete(m, key) ==
  IF m.size = 0 THEN m
  ELSE IF m.root \notin Ids(m) THEN Raise(m, "AttributeError")
  ELSE
    LET r == BST_search(m, key, m.root, Fuel(m))
        dn == r.val
    IN IF r.st # "ok" THEN Raise(m, r.st)
       ELSE IF m.h[dn].parent = None THEN Raise(m, "ValueError")
       ELSE
         LET l == m.h[dn].left
             rt == m.h[dn].right
             m1 ==
               IF l = None /\ rt = None
                 THEN \* No children
                      BSTReplaceInParent(m, dn, None)
               ELSE IF l # None /\ rt # None
                 THEN \* Two children
                      LET c == BST_get_min(m, rt, Fuel(m))
                          cand == c.val
                      IN IF c.st # "ok" THEN Raise(m, c.st)
                         ELSE IF m.h[cand].parent = None
                           THEN Raise(m, "ValueError")
                         ELSE
                           LET mc == [m EXCEPT !.h[dn].key = m.h[cand].key,
                                                !.h[dn].data = m.h[cand].data]
                           IN BSTReplaceInParent(mc, cand, None)
               ELSE IF l # None /\ rt = None
                 THEN \* One child (left)
                      BSTReplaceInParent(SetParent(m, l, m.h[dn].parent), dn, l)
               ELSE IF rt # None /\ l = None
                 THEN \* One child (right)
                      BSTReplaceInParent(SetParent(m, rt, m.h[dn].parent), dn, rt)
               ELSE Raise(m, "RuntimeError")
         IN IF m1.st = "ok" THEN [m1 EXCEPT !.size = m.size - 1] ELSE m1


\* _height(node): 0 for None and for a leaf
RECURSIVE BST_height(_, _, _)
BST_height(m, node, fuel) ==
  IF node = None THEN 0
  ELSE IF fuel = 0 THEN 0
  ELSE IF m.h[node].left = None /\ m.h[node].right = None THEN 0
  ELSE Max2(BST_height(m, m.h[node].left, fuel - 1),
            BST_height(m, m.h[node].right, fuel - 1)) + 1

\* _is_balance(node)
RECURSIVE BST_is_balance(_, _, _)
BST_is_balance(m, node, fuel) ==
  LET left_hight == BST_height(m, m.h[node].left, Fuel(m))
      right_height == BST_height(m, m.h[node].right, Fuel(m))
      diff == left_hight - right_height
  IN IF fuel = 0 THEN FALSE
     ELSE IF diff > 1 \/ diff < 0 - 1 THEN FALSE
     ELSE IF m.h[node].left # None
             /\ ~BST_is_balance(m, m.h[node].left, fuel - 1) THEN FALSE
     ELSE IF m.h[node].right # None
             /\ ~BST_is_balance(m, m.h[node].right, fuel - 1) THEN FALSE
     ELSE TRUE

\* get_height()
BSTget_height(m) ==
  IF m.root = Unset THEN Ret("AttributeError", 0)
  ELSE Ret("ok", BST_height(m, m.root, Fuel(m)))

\* is_balance()
BSTis_balance(m) ==
  IF m.size = 0 THEN Ret("ok", TRUE)
  ELSE IF m.root \notin Ids(m) THEN Ret("AttributeError", FALSE)
  ELSE Ret("ok", BST_is_balance(m, m.root, Fuel(m)))

(***************************************************************************)
(* AVLTree (avl_tree.py).                                                  *)
(***************************************************************************)
\* search(key): the node, or KeyNotFoundError
RECURSIVE AVLsearchFrom(_, _, _, _)
AVLsearchFrom(m, key, current, fuel) ==
  IF current = None THEN Ret("KeyNotFoundError", None)
  ELSE IF fuel = 0 THEN Ret("hang", None)
  ELSE IF key = m.h[current].key THEN Ret("ok", current)
  ELSE IF key < m.h[current].key
    THEN AVLsearchFrom(m, key, m.h[current].left, fuel - 1)
    ELSE AVLsearchFrom(m, key, m.h[current].right, fuel - 1)

AVLsearch(m, key) == AVLsearchFrom(m, key, m.root, Fuel(m))

\* get_height(node): 0 for None and for a leaf
RECURSIVE AVLget_height(_, _)
AVLget_height(m, node) ==
  IF node = None THEN 0
  ELSE IF m.h[node].left = None /\ m.h[node].right = None THEN 0
  ELSE Max2(AVLget_height(m, m.h[node].left),
            AVLget_height(m, m.h[node].right)) + 1

AVL_balance_factor(m, node) ==
  IF node = None THEN -1
  ELSE AVLget_height(m, m.h[node].left) - AVLget_height(m, m.h[node].right)

\* "x.height = 1 + max(get_height(x.left), get_height(x.right))"
AVLSetHeight(m, x) ==
  [m EXCEPT !.h[x].height =
     1 + Max2(AVLget_height(m, m.h[x].left), AVLget_height(m, m.h[x].right))]

\* _left_rotate that rotates nothing
AVL_left_rotate_skipped(m, node) == m

AVL_left_rotate(m, node) ==
  IF m.st # "ok" THEN m
  ELSE
  LET temp == m.h[node].right
  IN IF temp = None THEN Raise(m, "AttributeError")
     ELSE
       LET tl == m.h[temp].left
           np == m.h[node].parent
           m1 == SetRight(m, node, tl)
           m2 == IF tl # None THEN SetParent(m1, tl, node) ELSE m1
           m3 == SetParent(m2, temp, np)
           m4 == IF np = None THEN [m3 EXCEPT !.root = temp]
                 ELSE IF NodeEq(node, m3.h[np].left) THEN SetLeft(m3, np, temp)
                 ELSE SetRight(m3, np, temp)
           m5 == SetParent(SetLeft(m4, temp, node), node, temp)
       IN AVLSetHeight(AVLSetHeight(m5, node), temp)

\* _right_rotate without "temp.right.parent = node": the subtree handed over
\* to node keeps temp as its parent
AVL_right_rotate_orphan(m, node) ==
  IF m.st # "ok" THEN m
  ELSE
  LET temp == m.h[node].left
  IN IF temp = None THEN Raise(m, "AttributeError")
     ELSE
       LET tr == m.h[temp].right
           np == m.h[node].parent
           m1 == SetLeft(m, node, tr)
           m3 == SetParent(m1, temp, np)
           m4 == IF np = None THEN [m3 EXCEPT !.root = temp]
                 ELSE IF NodeEq(node, m3.h[np].right) THEN SetRight(m3, np, temp)
                 ELSE SetLeft(m3, np, temp)
           m5 == SetParent(SetRight(m4, temp, node), node, temp)
       IN AVLSetHeight(AVLSetHeight(m5, node), temp)

AVL_right_rotate(m, node) ==
  IF m.st # "ok" THEN m
  ELSE
  LET temp == m.h[node].left
  IN IF temp = None THEN Raise(m, "AttributeError")
     ELSE
       LET tr == m.h[temp].right
           np == m.h[node].parent
           m1 == SetLeft(m, node, tr)
           m2 == IF tr # None THEN SetParent(m1, tr, node) ELSE m1
           m3 == SetParent(m2, temp, np)
           m4 == IF np = None THEN [m3 EXCEPT !.root = temp]
                 ELSE IF NodeEq(node, m3.h[np].right) THEN SetRight(m3, np, temp)
                 ELSE SetLeft(m3, np, temp)
           m5 == SetParent(SetRight(m4, temp, node), node, temp)
       IN AVLSetHeight(AVLSetHeight(m5, node), temp)

\* _transplant that sets the replacing node's parent and leaves the child
\* link of the deleting node's parent (or the root) as it is
AVL_transplant_half(m, deleting_node, replacing_node) ==
  IF replacing_node # None
    THEN SetParent(m, replacing_node, m.h[deleting_node].parent)
  ELSE m

AVL_transplant(m, deleting_node, replacing_node) ==
  LET dp == m.h[deleting_node].parent
      m1 == IF dp = None THEN [m EXCEPT !.root = replacing_node]
            ELSE IF NodeEq(deleting_node, m.h[dp].left)
              THEN SetLeft(m, dp, replacing_node)
            ELSE SetRight(m, dp, replacing_node)
  IN IF replacing_node # None THEN SetParent(m1, replacing_node, dp) ELSE m1

\* insert: the descent; the parent of the new node, or DuplicateKeyError
RECURSIVE AVLinsertFind(_, _, _, _, _)
AVLinsertFind(m, key, temp, parent, fuel) ==
  IF temp = None THEN Ret("ok", parent)
  ELSE IF fuel = 0 THEN Ret("hang", None)
  ELSE IF key = m.h[temp].key THEN Ret("DuplicateKeyError", None)
  ELSE IF key < m.h[temp].key
    THEN AVLinsertFind(m, key, m.h[temp].left, temp, fuel - 1)
    ELSE AVLinsertFind(m, key, m.h[temp].right, temp, fuel - 1)

\* insert: the rotation at the unbalanced grandparent
AVLinsertRotate(m, temp, parent, grandparent) ==
  LET gl == m.h[grandparent].left
      gr == m.h[grandparent].right
  IN IF NodeEq(parent, gl)
       THEN IF NodeEq(temp, m.h[gl].left)
              THEN AVL_right_rotate(m, grandparent)
            ELSE IF NodeEq(temp, m.h[gl].right)
              THEN AVL_right_rotate(AVL_left_rotate(m, parent), grandparent)
            ELSE m
     ELSE IF NodeEq(parent, gr)
       THEN IF NodeEq(temp, m.h[gr].right)
              THEN AVL_left_rotate(m, grandparent)
            ELSE IF NodeEq(temp, m.h[gr].left)
              THEN AVL_left_rotate(AVL_right_rotate(m, parent), grandparent)
            ELSE m
     ELSE m

\* insert: the walk from the new node's parent toward the root
RECURSIVE AVLinsertAscend(_, _, _, _)
AVLinsertAscend(m, temp, parent, fuel) ==
  IF parent = None \/ m.st # "ok" THEN m
  ELSE IF fuel = 0 THEN Raise(m, "hang")
  ELSE
    LET m1 == AVLSetHeight(m, parent)
        grandparent == m1.h[parent].parent
        bf == AVL_balance_factor(m1, grandparent)
    IN IF bf <= -2 \/ bf >= 2
         THEN AVLinsertRotate(m1, temp, parent, grandparent)
         ELSE AVLinsertAscend(m1, m1.h[temp].parent, grandparent, fuel - 1)

AVLinsert(m, key, data) ==
  LET f == AVLinsertFind(m, key, m.root, None, Fuel(m))
      parent == f.val
  IN IF f.st # "ok" THEN Raise(m, f.st)
     ELSE
       LET node == NewId(m, key)
           m1 == [m EXCEPT !.h[node] =
                    NewNode(key, data, None, None, parent, Black)]
           m2 == IF parent = None THEN [m1 EXCEPT !.root = node]
                 ELSE IF key < m1.h[parent].key THEN SetLeft(m1, parent, node)
                 ELSE SetRight(m1, parent, node)
       IN AVLinsertAscend(m2, node, parent, 2 * Fuel(m))

\* get_min(node) on a node
RECURSIVE AVLget_min(_, _, _)
AVLget_min(m, node, fuel) ==
  IF fuel = 0 THEN Ret("hang", None)
  ELSE IF m.h[node].left # None THEN AVLget_min(m, m.h[node].left, fuel - 1)
  ELSE Ret("ok", node)

\* get_max(node) on a node
RECURSIVE AVLget_max(_, _, _)
AVLget_max(m, node, fuel) ==
  IF fuel = 0 THEN Ret("hang", None)
  ELSE IF m.h[node].right # None THEN AVLget_max(m, m.h[node].right, fuel - 1)
  ELSE Ret("ok", node)

\* AVLTree.get_min(node), node a node or None
AVLget_min_from(m, node) ==
  IF node # None THEN AVLget_min(m, node, Fuel(m))
  ELSE IF m.root # None THEN AVLget_min(m, m.root, Fuel(m))
  ELSE Ret("EmptyTreeError", None)

\* AVLTree.get_max(node), node a node or None
AVLget_max_from(m, node) ==
  IF node # None THEN AVLget_max(m, node, Fuel(m))
  ELSE IF m.root # None THEN AVLget_max(m, m.root, Fuel(m))
  ELSE Ret("EmptyTreeError", None)

\* get_successor: while parent and node == parent.right
RECURSIVE AVLget_successor_climb(_, _, _, _)
AVLget_successor_climb(m, node, parent, fuel) ==
  IF fuel = 0 THEN Ret("hang", None)
  ELSE IF parent # None /\ NodeEq(node, m.h[parent].right)
    THEN AVLget_successor_climb(m, parent, m.h[parent].parent, fuel - 1)
  ELSE Ret("ok", parent)

\* AVLTree.get_successor(node)
AVLget_successor(m, node) ==
  IF m.h[node].right # None THEN AVLget_min(m, m.h[node].right, Fuel(m))
  ELSE AVLget_successor_climb(m, node, m.h[node].parent, Fuel(m))

\* AVLTree.get_predecessor(node)
AVLget_predecessor(m, node) ==
  IF m.h[node].left # None THEN AVLget_max(m, m.h[node].left, Fuel(m))
  ELSE Ret("ok", m.h[node].parent)

\* _delete_fixup: the rotation at the unbalanced node temp
AVLfixupRotate(m, temp) ==
  LET tl == m.h[temp].left
      tr == m.h[temp].right
  IN IF tl = None \/ tr = None THEN Raise(m, "AttributeError")
     ELSE
       LET y == IF m.h[tl].height > m.h[tr].height THEN tl ELSE tr
           yl == m.h[y].left
           yr == m.h[y].right
       IN IF yl = None \/ yr = None THEN Raise(m, "AttributeError")
          ELSE
            LET z == IF m.h[yl].height > m.h[yr].height THEN yl
                     ELSE IF m.h[yl].height < m.h[yr].height THEN yr
                     ELSE IF NodeEq(y, tl) THEN yl ELSE yr
            IN IF NodeEq(y, tl)
                 THEN IF NodeEq(z, m.h[tl].left)
                        THEN AVL_right_rotate(m, temp)
                      ELSE IF NodeEq(z, m.h[tl].right)
                        THEN AVL_right_rotate(AVL_left_rotate(m, y), temp)
                      ELSE m
               ELSE IF NodeEq(y, tr)
                 THEN IF NodeEq(z, m.h[tr].right)
                        THEN AVL_left_rotate(m, temp)
                      ELSE IF NodeEq(z, m.h[tr].left)
                        THEN AVL_left_rotate(AVL_right_rotate(m, y), temp)
                      ELSE m
               ELSE m

RECURSIVE AVL_delete_fixup(_, _, _)
AVL_delete_fixup(m, fixing_node, fuel) ==
  IF fixing_node = None \/ m.st # "ok" THEN m
  ELSE IF fuel = 0 THEN Raise(m, "hang")
  ELSE
    LET m1 == AVLSetHeight(m, fixing_node)
        bf == AVL_balance_factor(m1, fixing_node)
        m2 == IF bf <= -2 \/ bf >= 2 THEN AVLfixupRotate(m1, fixing_node)
              ELSE m1
    IN IF m2.st # "ok" THEN m2
       ELSE AVL_delete_fixup(m2, m2.h[fixing_node].parent, fuel - 1)

AVLdelete(m, key) ==
  LET s == AVLsearch(m, key)
      dn == s.val
  IN IF s.st # "ok" THEN Raise(m, s.st)
     ELSE
       LET l == m.h[dn].left
           r == m.h[dn].right
       IN IF l = None
            THEN \* No children or only one right child
                 LET m1 == AVL_transplant(m, dn, r)
                 IN IF r # None THEN AVL_delete_fixup(m1, r, 2 * Fuel(m))
                    ELSE m1
          ELSE IF r = None
            THEN \* Only one left child
                 LET m1 == AVL_transplant(m, dn, l)
                 IN AVL_delete_fixup(m1, l, 2 * Fuel(m))
          ELSE \* Two children
               LET g == AVLget_min(m, r, Fuel(m))
                   min_node == g.val
               IN IF g.st # "ok" THEN Raise(m, g.st)
                  ELSE
                    LET m1 == IF ~NodeEq(m.h[min_node].parent, dn)
                                THEN LET a == AVL_transplant(m, min_node,
                                                   m.h[min_node].right)
                                         b == SetRight(a, min_node, a.h[dn].right)
                                     IN SetParent(b, b.h[min_node].right, min_node)
                                ELSE m
                        m2 == AVL_transplant(m1, dn, min_node)
                        m3 == SetLeft(m2, min_node, m2.h[dn].left)
                        m4 == SetParent(m3, m3.h[min_node].left, min_node)
                    IN AVL_delete_fixup(m4, min_node, 2 * Fuel(m))

(***************************************************************************)
(* RBTree (red_black_tree.py).                                             *)
(***************************************************************************)
\* isinstance(x, RBNode)
IsNode(m, x) == x \in Ids(m)

\* x is None: an attribute read or write on it raises AttributeError
NoAttr(m, x) == x # NIL /\ x \notin Ids(m)

RECURSIVE RBsearchFrom(_, _, _, _)
RBsearchFrom(m, key, temp, fuel) ==
  IF ~IsNode(m, temp) THEN Ret("KeyNotFoundError", None)
  ELSE IF fuel = 0 THEN Ret("hang", None)
  ELSE IF key < m.h[temp].key
    THEN RBsearchFrom(m, key, m.h[temp].left, fuel - 1)
  ELSE IF key > m.h[temp].key
    THEN RBsearchFrom(m, key, m.h[temp].right, fuel - 1)
  ELSE Ret("ok", temp)

RBsearch(m, key) == RBsearchFrom(m, key, m.root, Fuel(m))

\* _left_rotate, its last statements: the link of node's parent, then
\* temp.left = node and node.parent = temp
RB_left_rotate_link(m, node, temp) ==
  LET np == Parent(m, node)
  IN IF np = NIL
       THEN SetParent(SetLeft([m EXCEPT !.root = temp], temp, node),
                      node, temp)
     ELSE IF NoAttr(m, np) THEN Raise(m, "AttributeError")
     ELSE SetParent(SetLeft(IF NodeEq(node, Left(m, np))
                              THEN SetLeft(m, np, temp)
                            ELSE SetRight(m, np, temp),
                            temp, node),
                    node, temp)

\* _left_rotate from "temp.parent = node.parent" on
RB_left_rotate_parent(m, node, temp) ==
  RB_left_rotate_link(SetParent(m, temp, Parent(m, node)), node, temp)

\* _left_rotate from "if isinstance(temp.left, RBNode)" on
RB_left_rotate_child(m, node, temp) ==
  RB_left_rotate_parent(IF IsNode(m, Left(m, temp))
                          THEN SetParent(m, Left(m, temp), node) ELSE m,
                        node, temp)

RB_left_rotate(m, node) ==
  IF m.st # "ok" THEN m
  ELSE IF NoAttr(m, node) THEN Raise(m, "AttributeError")
  ELSE
    LET temp == Right(m, node)
    IN IF NoAttr(m, temp) THEN Raise(m, "AttributeError")
       ELSE RB_left_rotate_child(SetRight(m, node, Left(m, temp)), node, temp)

\* _right_rotate, its last statements
RB_right_rotate_link(m, node, temp) ==
  LET np == Parent(m, node)
  IN IF np = NIL
       THEN SetParent(SetRight([m EXCEPT !.root = temp], temp, node),
                      node, temp)
     ELSE IF NoAttr(m, np) THEN Raise(m, "AttributeError")
     ELSE SetParent(SetRight(IF NodeEq(node, Right(m, np))
                               THEN SetRight(m, np, temp)
                             ELSE SetLeft(m, np, temp),
                             temp, node),
                    node, temp)

\* _right_rotate from "temp.parent = node.parent" on
RB_right_rotate_parent(m, node, temp) ==
  RB_right_rotate_link(SetParent(m, temp, Parent(m, node)), node, temp)

\* _right_rotate from "if isinstance(temp.right, RBNode)" on
RB_right_rotate_child(m, node, temp) ==
  RB_right_rotate_parent(IF IsNode(m, Right(m, temp))
                           THEN SetParent(m, Right(m, temp), node) ELSE m,
                         node, temp)

RB_right_rotate(m, node) ==
  IF m.st # "ok" THEN m
  ELSE IF NoAttr(m, node) THEN Raise(m, "AttributeError")
  ELSE
    LET temp == Left(m, node)
    IN IF NoAttr(m, temp) THEN Raise(m, "AttributeError")
       ELSE RB_right_rotate_child(SetLeft(m, node, Right(m, temp)), node, temp)

\* the result of one turn of a fix-up loop: the tree and the next fixing node
RBTurn(m, fixing_node) == [m |-> m, n |-> fixing_node]

\* _insert_fixup, the last statement of a turn: the rotation of the
\* grandparent.  "isLeft": the parent hangs on the left of the grandparent.
RBinsertFixRotate(m, fixing_node, isLeft) ==
  RBTurn(IF isLeft
           THEN RB_right_rotate(m, Parent(m, Parent(m, fixing_node)))
         ELSE RB_left_rotate(m, Parent(m, Parent(m, fixing_node))),
         fixing_node)

\* _insert_fixup: fixing_node.parent.parent.color = Color.Red
RBinsertFixGrand(m, fixing_node, isLeft) ==
  IF NoAttr(m, Parent(m, Parent(m, fixing_node)))
    THEN RBTurn(Raise(m, "AttributeError"), fixing_node)
  ELSE RBinsertFixRotate(SetColor(m, Parent(m, Parent(m, fixing_node)), Red),
                         fixing_node, isLeft)

\* _insert_fixup: fixing_node.parent.color = Color.Black, after the rotation
\* of the inner case
RBinsertFixRecolor(m, fixing_node, isLeft) ==
  IF m.st # "ok" THEN RBTurn(m, fixing_node)
  ELSE IF NoAttr(m, Parent(m, fixing_node))
    THEN RBTurn(Raise(m, "AttributeError"), fixing_node)
  ELSE RBinsertFixGrand(SetColor(m, Parent(m, fixing_node), Black),
                        fixing_node, isLeft)

\* _insert_fixup: one turn of the loop on a node whose parent is Red.
RBinsertFixStep(m, fixing_node) ==
  LET p == Parent(m, fixing_node)
      pp == Parent(m, p)
  IN IF NoAttr(m, pp) THEN RBTurn(Raise(m, "AttributeError"), fixing_node)
     ELSE
       LET isLeft == NodeEq(p, Left(m, pp))
           temp == IF isLeft THEN Right(m, pp) ELSE Left(m, pp)
       IN IF NoAttr(m, temp)
            THEN RBTurn(Raise(m, "AttributeError"), fixing_node)
          ELSE IF Color(m, temp) = Red
            THEN RBTurn(SetColor(SetColor(SetColor(m, p, Black), temp, Black),
                                 pp, Red),
                        pp)
          ELSE IF (IF isLeft THEN NodeEq(fixing_node, Right(m, p))
                   ELSE NodeEq(fixing_node, Left(m, p)))
            THEN \* the inner case: fixing_node = fixing_node.parent, rotate
                 RBinsertFixRecolor(IF isLeft THEN RB_left_rotate(m, p)
                                    ELSE RB_right_rotate(m, p),
                                    p, isLeft)
          ELSE RBinsertFixRecolor(m, fixing_node, isLeft)

\* _insert_fixup without its loop: the root is made Black and that is all
RB_insert_fixup_rootonly(m, fixing_node, fuel) ==
  IF m.st # "ok" THEN m
  ELSE IF NoAttr(m, m.root) THEN Raise(m, "AttributeError")
  ELSE SetColor(m, m.root, Black)

RECURSIVE RB_insert_fixup(_, _, _)
RB_insert_fixup(m, fixing_node, fuel) ==
  IF m.st # "ok" THEN m
  ELSE IF NoAttr(m, Parent(m, fixing_node)) THEN Raise(m, "AttributeError")
  ELSE IF Color(m, Parent(m, fixing_node)) = Red
    THEN IF fuel = 0 THEN Raise(m, "hang")
         ELSE LET r == RBinsertFixStep(m, fixing_node)
              IN RB_insert_fixup(r.m, r.n, fuel - 1)
  ELSE IF NoAttr(m, m.root) THEN Raise(m, "AttributeError")
  ELSE SetColor(m, m.root, Black)

\* insert: the descent; the parent of the new node (NIL on an empty tree)
RECURSIVE RBinsertFind(_, _, _, _, _)
RBinsertFind(m, key, temp, parent, fuel) ==
  IF ~IsNode(m, temp) THEN Ret("ok", parent)
  ELSE IF fuel = 0 THEN Ret("hang", None)
  ELSE IF key < m.h[temp].key
    THEN RBinsertFind(m, key, m.h[temp].left, temp, fuel - 1)
    ELSE RBinsertFind(m, key, m.h[temp].right, temp, fuel - 1)

RBinsert(m, key, data) ==
  LET f == RBinsertFind(m, key, m.root, NIL, Fuel(m))
      parent == f.val
      node == NewId(m, key)
  IN IF f.st # "ok" THEN Raise(m, f.st)
     ELSE IF parent = NIL
       THEN [m EXCEPT !.h[node] = NewNode(key, data, NIL, NIL, NIL, Black),
                      !.root = node]
     ELSE
       LET m1 == [m EXCEPT !.h[node] = NewNode(key, data, NIL, NIL, parent, Red)]
           m2 == IF key < m1.h[parent].key THEN SetLeft(m1, parent, node)
                 ELSE SetRight(m1, parent, node)
       IN RB_insert_fixup(m2, node, 2 * Fuel(m))

RB_transplant(m, deleting_node, replacing_node) ==
  IF m.st # "ok" THEN m
  ELSE
    LET dp == Parent(m, deleting_node)
    IN IF dp # NIL /\ NoAttr(m, dp) THEN Raise(m, "AttributeError")
       ELSE
         LET m1 == IF dp = NIL THEN [m EXCEPT !.root = replacing_node]
                   ELSE IF NodeEq(deleting_node, Left(m, dp))
                     THEN SetLeft(m, dp, replacing_node)
                   ELSE SetRight(m, dp, replacing_node)
         IN IF NoAttr(m1, replacing_node) THEN Raise(m1, "AttributeError")
            ELSE SetParent(m1, replacing_node, Parent(m1, deleting_node))

\* get_min(node) on a node
RECURSIVE RBget_min(_, _, _)
RBget_min(m, current_node, fuel) ==
  IF fuel = 0 THEN Ret("hang", None)
  ELSE IF IsNode(m, Left(m, current_node))
    THEN RBget_min(m, Left(m, current_node), fuel - 1)
  ELSE Ret("ok", current_node)

\* get_max(node) on a node
RECURSIVE RBget_max(_, _, _)
RBget_max(m, current_node, fuel) ==
  IF fuel = 0 THEN Ret("hang", None)
  ELSE IF IsNode(m, Right(m, current_node))
    THEN RBget_max(m, Right(m, current_node), fuel - 1)
  ELSE Ret("ok", current_node)

\* RBTree.get_min(node), node a node or None (the default)
RBget_min_from(m, node) ==
  IF node # None THEN RBget_min(m, node, Fuel(m))
  ELSE IF IsNode(m, m.root) THEN RBget_min(m, m.root, Fuel(m))
  ELSE Ret("EmptyTreeError", None)

\* RBTree.get_max(node), node a node or None (the default)
RBget_max_from(m, node) ==
  IF node # None THEN RBget_max(m, node, Fuel(m))
  ELSE IF IsNode(m, m.root) THEN RBget_max(m, m.root, Fuel(m))
  ELSE Ret("EmptyTreeError", None)

\* get_successor: while isinstance(parent, RBNode) and node == parent.right
RECURSIVE RBget_successor_climb(_, _, _, _)
RBget_successor_climb(m, node, parent, fuel) ==
  IF fuel = 0 THEN Ret("hang", None)
  ELSE IF IsNode(m, parent) /\ NodeEq(node, Right(m, parent))
    THEN RBget_successor_climb(m, parent, Parent(m, parent), fuel - 1)
  ELSE Ret("ok", parent)

\* RBTree.get_successor(node)
RBget_successor(m, node) ==
  IF IsNode(m, Right(m, node)) THEN RBget_min(m, Right(m, node), Fuel(m))
  ELSE RBget_successor_climb(m, node, Parent(m, node), Fuel(m))

\* RBTree.get_predecessor(node)
RBget_predecessor(m, node) ==
  IF IsNode(m, Left(m, node)) THEN RBget_max(m, Left(m, node), Fuel(m))
  ELSE Ret("ok", Parent(m, node))

\* _delete_fixup: the children of x as seen from the fixing node's side.
\* "isLeft": the fixing node is the left child of its parent.  RBFar is the
\* child on the other side (the sibling, below the parent), RBNear the child
\* on the fixing node's side.
RBFar(m, x, isLeft) == IF isLeft THEN Right(m, x) ELSE Left(m, x)

RBNear(m, x, isLeft) == IF isLeft THEN Left(m, x) ELSE Right(m, x)

\* the rotation toward the fixing node's side, and the one away from it
RBRotToward(m, x, isLeft) ==
  IF isLeft THEN RB_left_rotate(m, x) ELSE RB_right_rotate(m, x)

RBRotAway(m, x, isLeft) ==
  IF isLeft THEN RB_right_rotate(m, x) ELSE RB_left_rotate(m, x)

\* _delete_fixup, Case 4, after the rotation: fixing_node = self.root
RBdeleteFixDone(m) == RBTurn(m, m.root)

\* _delete_fixup, Case 4: the far child of the sibling turns Black, then the
\* rotation of the parent
RBdeleteFixFar(m, fixing_node, isLeft, sibling) ==
  LET fr == RBFar(m, sibling, isLeft)
  IN IF NoAttr(m, fr) THEN RBTurn(Raise(m, "AttributeError"), fixing_node)
     ELSE RBdeleteFixDone(RBRotToward(SetColor(m, fr, Black),
                                      Parent(SetColor(m, fr, Black),
                                             fixing_node),
                                      isLeft))

\* _delete_fixup, Case 4: the sibling takes the parent's colour and the
\* parent turns Black
RBdeleteFixCase4(m, fixing_node, isLeft, sibling) ==
  IF m.st # "ok" THEN RBTurn(m, fixing_node)
  ELSE
    LET fp == Parent(m, fixing_node)
    IN IF NoAttr(m, fp) THEN RBTurn(Raise(m, "AttributeError"), fixing_node)
       ELSE RBdeleteFixFar(SetColor(SetColor(m, sibling, Color(m, fp)),
                                    fp, Black),
                           fixing_node, isLeft, sibling)

\* _delete_fixup, Case 3: the far child of the sibling is Black
RBdeleteFixCase3(m, fixing_node, isLeft, sibling) ==
  IF NoAttr(m, RBFar(m, sibling, isLeft))
    THEN RBTurn(Raise(m, "AttributeError"), fixing_node)
  ELSE
    LET c3 == Color(m, RBFar(m, sibling, isLeft)) = Black
        nr == RBNear(m, sibling, isLeft)
    IN IF c3 /\ NoAttr(m, nr)
         THEN RBTurn(Raise(m, "AttributeError"), fixing_node)
       ELSE RBdeleteFixCase4(
              IF c3 THEN RBRotAway(SetColor(SetColor(m, nr, Black),
                                            sibling, Red),
                                   sibling, isLeft)
              ELSE m,
              fixing_node, isLeft, sibling)

\* _delete_fixup, Case 2: both children of the sibling are Black.  After
\* Case 1 ("red") the sibling is read again from the parent.
RBdeleteFixCase2(m, fixing_node, isLeft, red, sibling0) ==
  IF m.st # "ok" THEN RBTurn(m, fixing_node)
  ELSE IF NoAttr(m, Parent(m, fixing_node))
    THEN RBTurn(Raise(m, "AttributeError"), fixing_node)
  ELSE
    LET sibling == IF red THEN RBFar(m, Parent(m, fixing_node), isLeft)
                   ELSE sibling0
    IN IF NoAttr(m, sibling)
         THEN RBTurn(Raise(m, "AttributeError"), fixing_node)
       ELSE
         LET first == IF isLeft THEN Left(m, sibling) ELSE Right(m, sibling)
             second == IF isLeft THEN Right(m, sibling) ELSE Left(m, sibling)
         IN IF NoAttr(m, first)
              THEN RBTurn(Raise(m, "AttributeError"), fixing_node)
            ELSE IF Color(m, first) = Black /\ NoAttr(m, second)
              THEN RBTurn(Raise(m, "AttributeError"), fixing_node)
            ELSE IF Color(m, first) = Black /\ Color(m, second) = Black
              THEN RBTurn(SetColor(m, sibling, Red), Parent(m, fixing_node))
            ELSE RBdeleteFixCase3(m, fixing_node, isLeft, sibling)

\* _delete_fixup: one turn of the loop.  Case 1: the sibling is Red
\* ("sibling.color == Color.Black" is a comparison: the sibling keeps its
\* colour).
RBdeleteFixStep(m, fixing_node) ==
  LET p == Parent(m, fixing_node)
  IN IF NoAttr(m, p) THEN RBTurn(Raise(m, "AttributeError"), fixing_node)
     ELSE
       LET isLeft == NodeEq(fixing_node, Left(m, p))
           sibling0 == RBFar(m, p, isLeft)
       IN IF NoAttr(m, sibling0)
            THEN RBTurn(Raise(m, "AttributeError"), fixing_node)
          ELSE IF Color(m, sibling0) = Red
            THEN RBdeleteFixCase2(RBRotToward(SetColor(m, p, Red), p, isLeft),
                                  fixing_node, isLeft, TRUE, sibling0)
          ELSE RBdeleteFixCase2(m, fixing_node, isLeft, FALSE, sibling0)

RECURSIVE RB_delete_fixup(_, _, _)
RB_delete_fixup(m, fixing_node, fuel) ==
  IF m.st # "ok" THEN m
  ELSE IF fixing_node # m.root /\ NoAttr(m, fixing_node)
    THEN Raise(m, "AttributeError")
  ELSE IF fixing_node # m.root /\ Color(m, fixing_node) = Black
    THEN IF fuel = 0 THEN Raise(m, "hang")
         ELSE LET r == RBdeleteFixStep(m, fixing_node)
              IN RB_delete_fixup(r.m, r.n, fuel - 1)
  ELSE IF NoAttr(m, fixing_node) THEN Raise(m, "AttributeError")
  ELSE SetColor(m, fixing_node, Black)

\* delete, two children, min_node not a child of the deleted node:
\* min_node.right.parent = min_node
RBdeleteDetachParent(m, min_node) ==
  IF NoAttr(m, Right(m, min_node)) THEN Raise(m, "AttributeError")
  ELSE SetParent(m, Right(m, min_node), min_node)

\* delete, two children, after _transplant(min_node, min_node.right):
\* min_node.right = deleting_node.right
RBdeleteDetachLink(m, deleting_node, min_node) ==
  IF m.st # "ok" THEN m
  ELSE RBdeleteDetachParent(SetRight(m, min_node, Right(m, deleting_node)),
                            min_node)

\* delete, two children: the successor is taken out of its place
RBdeleteDetach(m, deleting_node, min_node, temp) ==
  IF NodeEq(m.h[min_node].parent, deleting_node)
    THEN IF NoAttr(m, temp) THEN Raise(m, "AttributeError")
         ELSE SetParent(m, temp, min_node)
  ELSE RBdeleteDetachLink(RB_transplant(m, min_node, temp),
                          deleting_node, min_node)

\* delete, two children: min_node.left.parent = min_node and
\* min_node.color = deleting_node.color
RBdeleteColor(m, deleting_node, min_node) ==
  IF NoAttr(m, Left(m, min_node)) THEN Raise(m, "AttributeError")
  ELSE SetColor(SetParent(m, Left(m, min_node), min_node),
                min_node, Color(m, deleting_node))

\* delete, two children, after _transplant(deleting_node, min_node):
\* min_node.left = deleting_node.left
RBdeleteAdopt(m, deleting_node, min_node) ==
  IF m.st # "ok" THEN m
  ELSE RBdeleteColor(SetLeft(m, min_node, Left(m, deleting_node)),
                     deleting_node, min_node)

\* delete, two children: the successor takes the place of the deleted node
RBdeleteReplace(m, deleting_node, min_node) ==
  RBdeleteAdopt(RB_transplant(m, deleting_node, min_node),
                deleting_node, min_node)

RBdelete(m, key) ==
  LET s == RBsearch(m, key)
      dn == s.val
  IN IF s.st # "ok" THEN Raise(m, s.st)
     ELSE
       LET l == m.h[dn].left
           r == m.h[dn].right
       IN IF l = NIL
            THEN \* No children or only one right child
                 LET m1 == RB_transplant(m, dn, r)
                 IN IF m.h[dn].color = Black
                      THEN RB_delete_fixup(m1, r, 3 * Fuel(m)) ELSE m1
          ELSE IF r = NIL
            THEN \* Only one left child
                 LET m1 == RB_transplant(m, dn, l)
                 IN IF m.h[dn].color = Black
                      THEN RB_delete_fixup(m1, l, 3 * Fuel(m)) ELSE m1
          ELSE \* Two children
               LET g == RBget_min(m, r, Fuel(m))
                   min_node == g.val
               IN IF g.st # "ok" THEN Raise(m, g.st)
                  ELSE
                    LET temp == m.h[min_node].right
                        m4 == RBdeleteReplace(
                                RBdeleteDetach(m, dn, min_node, temp),
                                dn, min_node)
                    IN IF m.h[min_node].color = Black
                         THEN RB_delete_fixup(m4, temp, 3 * Fuel(m)) ELSE m4

(***************************************************************************)
(* BinaryTree (binary_tree.py): the base-class methods the threaded trees   *)
(* call.  A node reference is true when it is not None.                     *)
(***************************************************************************)
\* the loop of get_min: while current_node.left
RECURSIVE BTleftmost(_, _, _)
BTleftmost(m, current_node, fuel) ==
  IF fuel = 0 THEN Ret("hang", None)
  ELSE IF m.h[current_node].left # None
    THEN BTleftmost(m, m.h[current_node].left, fuel - 1)
  ELSE Ret("ok", current_node)

\* BinaryTree.get_min(node)
BTget_min(m, node) ==
  IF node # None THEN BTleftmost(m, node, Fuel(m))
  ELSE IF m.root # None THEN BTleftmost(m, m.root, Fuel(m))
  ELSE Ret("EmptyTreeError", None)

\* BinaryTree.empty: "if self.root: return False" / "return True".  A node
\* object and the LeafNode object are both true; only None is false.
BTempty(m) == IF m.root # None THEN FALSE ELSE TRUE

\* the loop of get_max: while current_node.right
RECURSIVE BTrightmost(_, _, _)
BTrightmost(m, current_node, fuel) ==
  IF fuel = 0 THEN Ret("hang", None)
  ELSE IF m.h[current_node].right # None
    THEN BTrightmost(m, m.h[current_node].right, fuel - 1)
  ELSE Ret("ok", current_node)

\* BinaryTree.get_max(node)
BTget_max(m, node) ==
  IF node # None THEN BTrightmost(m, node, Fuel(m))
  ELSE IF m.root # None THEN BTrightmost(m, m.root, Fuel(m))
  ELSE Ret("EmptyTreeError", None)

\* BinaryTree.search(key)
RECURSIVE BTsearchFrom(_, _, _, _)
BTsearchFrom(m, key, temp, fuel) ==
  IF temp = None THEN Ret("KeyNotFoundError", None)
  ELSE IF fuel = 0 THEN Ret("hang", None)
  ELSE IF key < m.h[temp].key
    THEN BTsearchFrom(m, key, m.h[temp].left, fuel - 1)
  ELSE IF key > m.h[temp].key
    THEN BTsearchFrom(m, key, m.h[temp].right, fuel - 1)
  ELSE Ret("ok", temp)

BTsearch(m, key) == BTsearchFrom(m, key, m.root, Fuel(m))

\* the loop of get_successor: while parent and node == parent.right
RECURSIVE BTclimb(_, _, _, _)
BTclimb(m, node, parent, fuel) ==
  IF parent # None /\ NodeEq(node, m.h[parent].right)
    THEN IF fuel = 0 THEN Ret("hang", None)
         ELSE BTclimb(m, parent, m.h[parent].parent, fuel - 1)
  ELSE Ret("ok", parent)

(***************************************************************************)
(* RightThreadedBinaryTree (threaded_binary_tree.py).                       *)
(***************************************************************************)
RECURSIVE RTsearchFrom(_, _, _, _)
RTsearchFrom(m, key, current, fuel) ==
  IF current = None THEN Ret("KeyNotFoundError", None)
  ELSE IF fuel = 0 THEN Ret("hang", None)
  ELSE IF key = m.h[current].key THEN Ret("ok", current)
  ELSE IF key < m.h[current].key
    THEN RTsearchFrom(m, key, m.h[current].left, fuel - 1)
  ELSE IF ~m.h[current].isThread
    THEN RTsearchFrom(m, key, m.h[current].right, fuel - 1)
  ELSE Ret("KeyNotFoundError", None)

RTsearch(m, key) == RTsearchFrom(m, key, m.root, Fuel(m))

\* insert whose descent takes a key it meets as an update of the data
RECURSIVE RTinsertFrom_update(_, _, _, _)
RTinsertFrom_update(m, node, temp, fuel) ==
  LET key == m.h[node].key
      t == m.h[temp]
  IN IF fuel = 0 THEN Raise(m, "hang")
     ELSE IF key < t.key
       THEN IF t.left # None THEN RTinsertFrom_update(m, node, t.left, fuel - 1)
            ELSE [m EXCEPT !.h[temp].left = node,
                           !.h[node].right = temp,
                           !.h[node].isThread = TRUE,
                           !.h[node].parent = temp]
     ELSE IF key > t.key
       THEN IF ~t.isThread /\ t.right # None
              THEN RTinsertFrom_update(m, node, t.right, fuel - 1)
            ELSE [m EXCEPT !.h[node].right = t.right,
                           !.h[temp].right = node,
                           !.h[node].isThread = t.isThread,
                           !.h[temp].isThread = FALSE,
                           !.h[node].parent = temp]
     ELSE [m EXCEPT !.h[temp].data = m.h[node].data]

\* insert whose descent does not hand the thread of the old rightmost node
\* over to the new node: "node.isThread = temp.isThread" is left out
RECURSIVE RTinsertFrom_unthreaded(_, _, _, _)
RTinsertFrom_unthreaded(m, node, temp, fuel) ==
  LET key == m.h[node].key
      t == m.h[temp]
  IN IF fuel = 0 THEN Raise(m, "hang")
     ELSE IF key < t.key
       THEN IF t.left # None
              THEN RTinsertFrom_unthreaded(m, node, t.left, fuel - 1)
            ELSE [m EXCEPT !.h[temp].left = node,
                           !.h[node].right = temp,
                           !.h[node].isThread = TRUE,
                           !.h[node].parent = temp]
     ELSE IF key > t.key
       THEN IF ~t.isThread /\ t.right # None
              THEN RTinsertFrom_unthreaded(m, node, t.right, fuel - 1)
            ELSE [m EXCEPT !.h[node].right = t.right,
                           !.h[temp].right = node,
                           !.h[temp].isThread = FALSE,
                           !.h[node].parent = temp]
     ELSE Raise(m, "DuplicateKeyError")

\* insert: the descent from temp with the new node allocated
RECURSIVE RTinsertFrom(_, _, _, _)
RTinsertFrom(m, node, temp, fuel) ==
  LET key == m.h[node].key
      t == m.h[temp]
  IN IF fuel = 0 THEN Raise(m, "hang")
     ELSE IF key < t.key
       THEN IF t.left # None THEN RTinsertFrom(m, node, t.left, fuel - 1)
            ELSE [m EXCEPT !.h[temp].left = node,
                           !.h[node].right = temp,
                           !.h[node].isThread = TRUE,
                           !.h[node].parent = temp]
     ELSE IF key > t.key
       THEN IF ~t.isThread /\ t.right # None
              THEN RTinsertFrom(m, node, t.right, fuel - 1)
            ELSE [m EXCEPT !.h[node].right = t.right,
                           !.h[temp].right = node,
                           !.h[node].isThread = t.isThread,
                           !.h[temp].isThread = FALSE,
                           !.h[node].parent = temp]
     ELSE Raise(m, "DuplicateKeyError")

RTinsert(m, key, data) ==
  LET node == NewId(m, key)
      m1 == [m EXCEPT !.h[node] = NewNode(key, data, None, None, None, Black)]
  IN IF m.root = None THEN [m1 EXCEPT !.root = node]
     ELSE RTinsertFrom(m1, node, m.root, Fuel(m1))

\* get_max(node) on a node
RECURSIVE RTget_max(_, _, _)
RTget_max(m, current_node, fuel) ==
  IF fuel = 0 THEN Ret("hang", None)
  ELSE IF ~m.h[current_node].isThread /\ m.h[current_node].right # None
    THEN RTget_max(m, m.h[current_node].right, fuel - 1)
  ELSE Ret("ok", current_node)

\* BinaryTree.get_predecessor(self, node) on a RightThreadedBinaryTree
RTbase_get_predecessor(m, node) ==
  IF m.h[node].left # None THEN RTget_max(m, m.h[node].left, Fuel(m))
  ELSE Ret("ok", m.h[node].parent)

RT_transplant(m, deleting_node, replacing_node) ==
  LET dp == m.h[deleting_node].parent
      m1 == IF dp = None
              THEN IF replacing_node # None
                     THEN [m EXCEPT !.root = replacing_node,
                                    !.h[replacing_node].isThread = FALSE]
                   ELSE [m EXCEPT !.root = replacing_node]
            ELSE IF NodeEq(deleting_node, m.h[dp].left)
              THEN [m EXCEPT !.h[dp].left = replacing_node]
            ELSE IF replacing_node # None
              THEN [m EXCEPT !.h[dp].right = replacing_node]
            ELSE LET a == [m EXCEPT !.h[dp].right = replacing_node]
                 IN [a EXCEPT !.h[dp].right = a.h[deleting_node].right,
                              !.h[dp].isThread = TRUE]
  IN IF replacing_node # None
       THEN [m1 EXCEPT !.h[replacing_node].parent = m1.h[deleting_node].parent]
     ELSE m1

\* delete: the deleting node has two children
RTdeleteTwo(m, dn) ==
  LET pr == RTbase_get_predecessor(m, dn)
      mn == BTget_min(m, m.h[dn].right)
  IN IF pr.st # "ok" THEN Raise(m, pr.st)
     ELSE IF mn.st # "ok" THEN Raise(m, mn.st)
     ELSE
       LET predecessor == pr.val
           min_node == mn.val
           m1 == IF ~NodeEq(m.h[min_node].parent, dn)
                   THEN LET a == IF m.h[min_node].isThread
                                   THEN RT_transplant(m, min_node, None)
                                 ELSE RT_transplant(m, min_node,
                                                    m.h[min_node].right)
                            b == [a EXCEPT !.h[min_node].right = a.h[dn].right]
                        IN IF b.h[min_node].right = None
                             THEN Raise(b, "AttributeError")
                           ELSE [b EXCEPT
                                   !.h[b.h[min_node].right].parent = min_node,
                                   !.h[min_node].isThread = FALSE]
                 ELSE m
       IN IF m1.st # "ok" THEN m1
          ELSE
            LET m2 == RT_transplant(m1, dn, min_node)
                m3 == [m2 EXCEPT !.h[min_node].left = m2.h[dn].left]
            IN IF m3.h[min_node].left = None THEN Raise(m3, "AttributeError")
               ELSE
                 LET m4 == [m3 EXCEPT !.h[m3.h[min_node].left].parent = min_node]
                 IN IF predecessor # None /\ m4.h[predecessor].isThread
                      THEN [m4 EXCEPT !.h[predecessor].right = min_node]
                    ELSE m4

RTdelete(m, key) ==
  IF m.root = None THEN m
  ELSE
    LET s == RTsearch(m, key)
        dn == s.val
    IN IF s.st # "ok" THEN Raise(m, s.st)
       ELSE IF m.h[dn].left = None /\ m.h[dn].isThread
         THEN RT_transplant(m, dn, None)
       ELSE IF m.h[dn].left = None /\ ~m.h[dn].isThread
         THEN RT_transplant(m, dn, m.h[dn].right)
       ELSE IF m.h[dn].left # None /\ m.h[dn].isThread
         THEN LET pr == RTbase_get_predecessor(m, dn)
              IN IF pr.st # "ok" THEN Raise(m, pr.st)
                 ELSE LET m1 == IF pr.val # None
                                  THEN [m EXCEPT !.h[pr.val].right =
                                                   m.h[dn].right]
                                ELSE m
                      IN RT_transplant(m1, dn, m1.h[dn].left)
       ELSE RTdeleteTwo(m, dn)

\* _get_leftmost(node)
RTget_leftmost(m, node) ==
  IF node = None THEN Ret("ok", None) ELSE BTleftmost(m, node, Fuel(m))

\* inorder_traverse: the pairs the generator yields from current on
RECURSIVE RTinorderFrom(_, _, _)
RTinorderFrom(m, current, fuel) ==
  IF current = None THEN Ret("ok", <<>>)
  ELSE IF fuel = 0 THEN Ret("hang", <<>>)
  ELSE
    LET c == m.h[current]
        nx == IF c.isThread THEN Ret("ok", c.right)
              ELSE RTget_leftmost(m, c.right)
        rest == IF nx.st = "ok" THEN RTinorderFrom(m, nx.val, fuel - 1)
                ELSE Ret(nx.st, <<>>)
    IN Ret(rest.st, <<<<c.key, c.data>>>> \o rest.val)

RTinorder_traverse(m) ==
  LET l == RTget_leftmost(m, m.root)
  IN IF l.st # "ok" THEN Ret(l.st, <<>>)
     ELSE RTinorderFrom(m, l.val, Fuel(m))

\* RightThreadedBinaryTree.preorder_traverse(): the pairs the generator yields
RECURSIVE RTpreorder_loop(_, _, _, _)
RTpreorder_loop(m, current, output, fuel) ==
  IF current = None THEN Ret("ok", output)
  ELSE IF fuel = 0 THEN Ret("hang", output)
  ELSE
    LET out == Append(output, <<m.h[current].key, m.h[current].data>>)
    IN IF m.h[current].isThread
         THEN IF m.h[current].right = None THEN Ret("AttributeError", out)
              ELSE RTpreorder_loop(m, m.h[m.h[current].right].right, out, fuel - 1)
         ELSE RTpreorder_loop(m, m.h[current].left, out, fuel - 1)

RTpreorder_traverse(m) == RTpreorder_loop(m, m.root, <<>>, Fuel(m))

(***************************************************************************)
(* LeftThreadedBinaryTree (threaded_binary_tree.py).  It has no search of   *)
(* its own: search is BinaryTree.search.                                    *)
(***************************************************************************)
\* insert: the descent from temp with the new node allocated
RECURSIVE LTinsertFrom(_, _, _, _)
LTinsertFrom(m, node, temp, fuel) ==
  LET key == m.h[node].key
      t == m.h[temp]
  IN IF fuel = 0 THEN Raise(m, "hang")
     ELSE IF key > t.key
       THEN IF t.right # None THEN LTinsertFrom(m, node, t.right, fuel - 1)
            ELSE [m EXCEPT !.h[temp].right = node,
                           !.h[node].left = temp,
                           !.h[node].isThread = TRUE,
                           !.h[node].parent = temp]
     ELSE IF key < t.key
       THEN IF ~t.isThread /\ t.left # None
              THEN LTinsertFrom(m, node, t.left, fuel - 1)
            ELSE [m EXCEPT !.h[node].left = t.left,
                           !.h[temp].left = node,
                           !.h[node].isThread = t.isThread,
                           !.h[temp].isThread = FALSE,
                           !.h[node].parent = temp]
     ELSE Raise(m, "DuplicateKeyError")

LTinsert(m, key, data) ==
  LET node == NewId(m, key)
      m1 == [m EXCEPT !.h[node] = NewNode(key, data, None, None, None, Black)]
  IN IF m.root = None THEN [m1 EXCEPT !.root = node]
     ELSE LTinsertFrom(m1, node, m.root, Fuel(m1))

\* get_min(node)
RECURSIVE LTget_min(_, _, _)
LTget_min(m, current_node, fuel) ==
  IF current_node = None THEN Ret("AttributeError", None)
  ELSE IF fuel = 0 THEN Ret("hang", None)
  ELSE IF m.h[current_node].left # None /\ ~m.h[current_node].isThread
    THEN LTget_min(m, m.h[current_node].left, fuel - 1)
  ELSE Ret("ok", current_node)

\* BinaryTree.get_successor(self, node) on a LeftThreadedBinaryTree
LTbase_get_successor(m, node) ==
  IF m.h[node].right # None THEN LTget_min(m, m.h[node].right, Fuel(m))
  ELSE BTclimb(m, node, m.h[node].parent, Fuel(m))

LT_transplant(m, deleting_node, replacing_node) ==
  LET dp == m.h[deleting_node].parent
      d == m.h[deleting_node]
      \* replacing_node.left = deleting_node.left, both of them threads
      Rethread(mm) ==
        IF d.isThread /\ mm.h[replacing_node].isThread
          THEN [mm EXCEPT !.h[replacing_node].left = mm.h[deleting_node].left]
        ELSE mm
      m1 == IF dp = None
              THEN IF replacing_node # None
                     THEN [m EXCEPT !.root = replacing_node,
                                    !.h[replacing_node].isThread = FALSE]
                   ELSE [m EXCEPT !.root = replacing_node]
            ELSE IF NodeEq(deleting_node, m.h[dp].left)
              THEN IF replacing_node # None
                     THEN Rethread([m EXCEPT !.h[dp].left = replacing_node])
                   ELSE LET a == [m EXCEPT !.h[dp].left = replacing_node]
                        IN [a EXCEPT !.h[dp].left = a.h[deleting_node].left,
                                     !.h[dp].isThread = TRUE]
            ELSE IF replacing_node # None
              THEN Rethread([m EXCEPT !.h[dp].right = replacing_node])
            ELSE [m EXCEPT !.h[dp].right = replacing_node]
  IN IF replacing_node # None
       THEN [m1 EXCEPT !.h[replacing_node].parent = m1.h[deleting_node].parent]
     ELSE m1

\* delete: the deleting node has two children
LTdeleteTwo(m, dn) ==
  LET mn == LTget_min(m, m.h[dn].right, Fuel(m))
  IN IF mn.st # "ok" THEN Raise(m, mn.st)
     ELSE
       LET min_node == mn.val
           su == LTbase_get_successor(m, min_node)
       IN IF su.st # "ok" THEN Raise(m, su.st)
          ELSE
            LET successor == su.val
                m1 == IF ~NodeEq(m.h[min_node].parent, dn)
                        THEN LET a == IF m.h[min_node].isThread
                                        THEN LT_transplant(m, min_node, None)
                                      ELSE LT_transplant(m, min_node,
                                                         m.h[min_node].right)
                                 b == [a EXCEPT !.h[min_node].right =
                                                  a.h[dn].right]
                             IN IF b.h[min_node].right = None
                                  THEN Raise(b, "AttributeError")
                                ELSE [b EXCEPT
                                        !.h[b.h[min_node].right].parent =
                                          min_node]
                      ELSE m
            IN IF m1.st # "ok" THEN m1
               ELSE
                 LET m2 == LT_transplant(m1, dn, min_node)
                     m3 == [m2 EXCEPT !.h[min_node].left = m2.h[dn].left]
                 IN IF m3.h[min_node].left = None
                      THEN Raise(m3, "AttributeError")
                    ELSE
                      LET m4 == [m3 EXCEPT
                                   !.h[m3.h[min_node].left].parent = min_node]
                          m5 == [m4 EXCEPT !.h[min_node].isThread = FALSE]
                      IN IF successor # None /\ m5.h[successor].isThread
                           THEN [m5 EXCEPT !.h[successor].left = min_node]
                         ELSE m5

LTdelete(m, key) ==
  IF m.root = None THEN m
  ELSE
    LET s == BTsearch(m, key)
        dn == s.val
    IN IF s.st # "ok" THEN Raise(m, s.st)
       ELSE IF m.h[dn].right = None /\ m.h[dn].isThread
         THEN LT_transplant(m, dn, None)
       ELSE IF m.h[dn].right # None /\ m.h[dn].isThread
         THEN LET su == LTbase_get_successor(m, dn)
              IN IF su.st # "ok" THEN Raise(m, su.st)
                 ELSE LET m1 == IF su.val # None
                                  THEN [m EXCEPT !.h[su.val].left =
                                                   m.h[dn].left]
                                ELSE m
                      IN LT_transplant(m1, dn, m1.h[dn].right)
       ELSE IF m.h[dn].right = None /\ ~m.h[dn].isThread
         THEN LT_transplant(m, dn, m.h[dn].left)
       ELSE LTdeleteTwo(m, dn)

\* _get_rightmost(node)
LTget_rightmost(m, node) ==
  IF node = None THEN Ret("ok", None) ELSE BTrightmost(m, node, Fuel(m))

\* outorder_traverse: the pairs the generator yields from current on
RECURSIVE LToutorderFrom(_, _, _)
LToutorderFrom(m, current, fuel) ==
  IF current = None THEN Ret("ok", <<>>)
  ELSE IF fuel = 0 THEN Ret("hang", <<>>)
  ELSE
    LET c == m.h[current]
        nx == IF c.isThread THEN Ret("ok", c.left)
              ELSE LTget_rightmost(m, c.left)
        rest == IF nx.st = "ok" THEN LToutorderFrom(m, nx.val, fuel - 1)
                ELSE Ret(nx.st, <<>>)
    IN Ret(rest.st, <<<<c.key, c.data>>>> \o rest.val)

LToutorder_traverse(m) ==
  LET r == LTget_rightmost(m, m.root)
  IN IF r.st # "ok" THEN Ret(r.st, <<>>)
     ELSE LToutorderFrom(m, r.val, Fuel(m))

(***************************************************************************)
(* DoubleThreadedBinaryTree (threaded_binary_tree.py).                      *)
(***************************************************************************)
\* insert: the descent from temp with the new node allocated
RECURSIVE DTinsertFrom(_, _, _, _)
DTinsertFrom(m, node, temp, fuel) ==
  LET key == m.h[node].key
      t == m.h[temp]
  IN IF fuel = 0 THEN Raise(m, "hang")
     ELSE IF key < t.key
       THEN IF ~t.leftThread /\ t.left # None
              THEN DTinsertFrom(m, node, t.left, fuel - 1)
            ELSE [m EXCEPT !.h[node].left = t.left,
                           !.h[temp].left = node,
                           !.h[node].right = temp,
                           !.h[node].rightThread = TRUE,
                           !.h[node].parent = temp,
                           !.h[temp].leftThread = FALSE,
                           !.h[node].leftThread = (t.left # None)]
     ELSE IF key > t.key
       THEN IF ~t.rightThread /\ t.right # None
              THEN DTinsertFrom(m, node, t.right, fuel - 1)
            ELSE [m EXCEPT !.h[node].right = t.right,
                           !.h[temp].right = node,
                           !.h[node].left = temp,
                           !.h[node].leftThread = TRUE,
                           !.h[temp].rightThread = FALSE,
                           !.h[node].parent = temp,
                           !.h[node].rightThread = (t.right # None)]
     ELSE Raise(m, "DuplicateKeyError")

DTinsert(m, key, data) ==
  LET node == NewId(m, key)
      m1 == [m EXCEPT !.h[node] = NewNode(key, data, None, None, None, Black)]
  IN IF m.root = None THEN [m1 EXCEPT !.root = node]
     ELSE DTinsertFrom(m1, node, m.root, Fuel(m1))

RECURSIVE DTsearchFrom(_, _, _, _)
DTsearchFrom(m, key, current, fuel) ==
  IF current = None THEN Ret("KeyNotFoundError", None)
  ELSE IF fuel = 0 THEN Ret("hang", None)
  ELSE IF key = m.h[current].key THEN Ret("ok", current)
  ELSE IF key < m.h[current].key
    THEN IF ~m.h[current].leftThread
           THEN DTsearchFrom(m, key, m.h[current].left, fuel - 1)
         ELSE Ret("KeyNotFoundError", None)
  ELSE IF ~m.h[current].rightThread
    THEN DTsearchFrom(m, key, m.h[current].right, fuel - 1)
  ELSE Ret("KeyNotFoundError", None)

DTsearch(m, key) == DTsearchFrom(m, key, m.root, Fuel(m))

\* the loop of get_min and of _get_leftmost
RECURSIVE DTleftmost(_, _, _)
DTleftmost(m, node, fuel) ==
  IF fuel = 0 THEN Ret("hang", None)
  ELSE IF m.h[node].left # None /\ ~m.h[node].leftThread
    THEN DTleftmost(m, m.h[node].left, fuel - 1)
  ELSE Ret("ok", node)

\* the loop of _get_rightmost
RECURSIVE DTrightmost(_, _, _)
DTrightmost(m, node, fuel) ==
  IF fuel = 0 THEN Ret("hang", None)
  ELSE IF m.h[node].right # None /\ ~m.h[node].rightThread
    THEN DTrightmost(m, m.h[node].right, fuel - 1)
  ELSE Ret("ok", node)

DTget_leftmost(m, node) ==
  IF node = None THEN Ret("ok", None) ELSE DTleftmost(m, node, Fuel(m))

DTget_rightmost(m, node) ==
  IF node = None THEN Ret("ok", None) ELSE DTrightmost(m, node, Fuel(m))

DTget_min(m, node) ==
  IF node = None THEN Ret("AttributeError", None)
  ELSE DTleftmost(m, node, Fuel(m))

DTget_predecessor(m, node) ==
  IF m.h[node].leftThread THEN Ret("ok", m.h[node].left)
  ELSE DTget_rightmost(m, m.h[node].left)

\* get_successor that finds no successor, so that delete repairs no thread
DTget_successor_none(m, node) == Ret("ok", None)

DTget_successor(m, node) ==
  IF m.h[node].rightThread THEN Ret("ok", m.h[node].right)
  ELSE DTget_leftmost(m, m.h[node].right)

DT_transplant(m, deleting_node, replacing_node) ==
  LET dp == m.h[deleting_node].parent
      d == m.h[deleting_node]
      \* replacing_node.left = deleting_node.left, both of them left threads
      Rethread(mm) ==
        IF d.leftThread /\ mm.h[replacing_node].leftThread
          THEN [mm EXCEPT !.h[replacing_node].left = mm.h[deleting_node].left]
        ELSE mm
      m1 == IF dp = None
              THEN IF replacing_node # None
                     THEN [m EXCEPT !.root = replacing_node,
                                    !.h[replacing_node].leftThread = FALSE,
                                    !.h[replacing_node].rightThread = FALSE]
                   ELSE [m EXCEPT !.root = replacing_node]
            ELSE IF NodeEq(deleting_node, m.h[dp].left)
              THEN IF replacing_node # None
                     THEN Rethread([m EXCEPT !.h[dp].left = replacing_node])
                   ELSE LET a == [m EXCEPT !.h[dp].left = replacing_node]
                        IN [a EXCEPT !.h[dp].left = a.h[deleting_node].left,
                                     !.h[dp].leftThread = TRUE]
            ELSE IF replacing_node # None
              THEN Rethread([m EXCEPT !.h[dp].right = replacing_node])
            ELSE LET a == [m EXCEPT !.h[dp].right = replacing_node]
                 IN [a EXCEPT !.h[dp].right = a.h[deleting_node].right,
                              !.h[dp].rightThread = TRUE]
  IN IF replacing_node # None
       THEN [m1 EXCEPT !.h[replacing_node].parent = m1.h[deleting_node].parent]
     ELSE m1

\* delete: the deleting node has two children
DTdeleteTwo(m, dn) ==
  LET pr == DTget_predecessor(m, dn)
      mn == DTget_min(m, m.h[dn].right)
      su == IF mn.st = "ok" THEN DTget_successor(m, mn.val) ELSE mn
  IN IF pr.st # "ok" THEN Raise(m, pr.st)
     ELSE IF mn.st # "ok" THEN Raise(m, mn.st)
     ELSE IF su.st # "ok" THEN Raise(m, su.st)
     ELSE
       LET predecessor == pr.val
           min_node == mn.val
           successor == su.val
           m1 == IF ~NodeEq(m.h[min_node].parent, dn)
                   THEN LET a == IF m.h[min_node].rightThread
                                   THEN DT_transplant(m, min_node, None)
                                 ELSE DT_transplant(m, min_node,
                                                    m.h[min_node].right)
                            b == [a EXCEPT !.h[min_node].right = a.h[dn].right]
                        IN IF b.h[min_node].right = None
                             THEN Raise(b, "AttributeError")
                           ELSE [b EXCEPT
                                   !.h[b.h[min_node].right].parent = min_node,
                                   !.h[min_node].rightThread = FALSE]
                 ELSE m
       IN IF m1.st # "ok" THEN m1
          ELSE
            LET m2 == DT_transplant(m1, dn, min_node)
                m3 == [m2 EXCEPT !.h[min_node].left = m2.h[dn].left]
            IN IF m3.h[min_node].left = None THEN Raise(m3, "AttributeError")
               ELSE
                 LET m4 == [m3 EXCEPT
                              !.h[m3.h[min_node].left].parent = min_node]
                     m5 == [m4 EXCEPT !.h[min_node].leftThread = FALSE]
                     m6 == IF predecessor # None
                              /\ m5.h[predecessor].rightThread
                             THEN [m5 EXCEPT !.h[predecessor].right = min_node]
                           ELSE m5
                 IN IF successor # None /\ m6.h[successor].leftThread
                      THEN [m6 EXCEPT !.h[successor].left = min_node]
                    ELSE m6

DTdelete(m, key) ==
  IF m.root = None THEN m
  ELSE
    LET s == DTsearch(m, key)
        dn == s.val
        noLeft == m.h[dn].leftThread \/ m.h[dn].left = None
        noRight == m.h[dn].rightThread \/ m.h[dn].right = None
    IN IF s.st # "ok" THEN Raise(m, s.st)
       ELSE IF noLeft /\ noRight THEN DT_transplant(m, dn, None)
       ELSE IF noLeft /\ ~m.h[dn].rightThread
         THEN LET su == DTget_successor(m, dn)
              IN IF su.st # "ok" THEN Raise(m, su.st)
                 ELSE LET m1 == IF su.val # None
                                  THEN [m EXCEPT !.h[su.val].left =
                                                   m.h[dn].left]
                                ELSE m
                      IN DT_transplant(m1, dn, m1.h[dn].right)
       ELSE IF noRight /\ ~m.h[dn].leftThread
         THEN LET pr == DTget_predecessor(m, dn)
              IN IF pr.st # "ok" THEN Raise(m, pr.st)
                 ELSE LET m1 == IF pr.val # None
                                  THEN [m EXCEPT !.h[pr.val].right =
                                                   m.h[dn].right]
                                ELSE m
                      IN DT_transplant(m1, dn, m1.h[dn].left)
       ELSE DTdeleteTwo(m, dn)

\* inorder_traverse: the pairs the generator yields from current on
RECURSIVE DTinorderFrom(_, _, _)
DTinorderFrom(m, current, fuel) ==
  IF current = None THEN Ret("ok", <<>>)
  ELSE IF fuel = 0 THEN Ret("hang", <<>>)
  ELSE
    LET c == m.h[current]
        nx == IF c.rightThread THEN Ret("ok", c.right)
              ELSE DTget_leftmost(m, c.right)
        rest == IF nx.st = "ok" THEN DTinorderFrom(m, nx.val, fuel - 1)
                ELSE Ret(nx.st, <<>>)
    IN Ret(rest.st, <<<<c.key, c.data>>>> \o rest.val)

DTinorder_traverse(m) ==
  LET l == DTget_leftmost(m, m.root)
  IN IF l.st # "ok" THEN Ret(l.st, <<>>)
     ELSE DTinorderFrom(m, l.val, Fuel(m))

\* outorder_traverse: the pairs the generator yields from current on
RECURSIVE DToutorderFrom(_, _, _)
DToutorderFrom(m, current, fuel) ==
  IF current = None THEN Ret("ok", <<>>)
  ELSE IF fuel = 0 THEN Ret("hang", <<>>)
  ELSE
    LET c == m.h[current]
        nx == IF c.leftThread THEN Ret("ok", c.left)
              ELSE DTget_rightmost(m, c.left)
        rest == IF nx.st = "ok" THEN DToutorderFrom(m, nx.val, fuel - 1)
                ELSE Ret(nx.st, <<>>)
    IN Ret(rest.st, <<<<c.key, c.data>>>> \o rest.val)

DToutorder_traverse(m) ==
  LET r == DTget_rightmost(m, m.root)
  IN IF r.st # "ok" THEN Ret(r.st, <<>>)
     ELSE DToutorderFrom(m, r.val, Fuel(m))

\* DoubleThreadedBinaryTree.preorder_traverse(): the pairs the generator
\* yields
RECURSIVE DTpreorder_loop(_, _, _, _)
DTpreorder_loop(m, current, output, fuel) ==
  IF current = None THEN Ret("ok", output)
  ELSE IF fuel = 0 THEN Ret("hang", output)
  ELSE
    LET out == Append(output, <<m.h[current].key, m.h[current].data>>)
    IN IF m.h[current].rightThread
         THEN IF m.h[current].right = None THEN Ret("AttributeError", out)
              ELSE DTpreorder_loop(m, m.h[m.h[current].right].right, out, fuel - 1)
       ELSE IF ~m.h[current].leftThread
         THEN DTpreorder_loop(m, m.h[current].left, out, fuel - 1)
       ELSE Ret("ok", out)

DTpreorder_traverse(m) == DTpreorder_loop(m, m.root, <<>>, Fuel(m))

(***************************************************************************)
(* The recursive in-order traversals: traversal.inorder_traverse(tree)      *)
(* (traversal.py) and RBTree.inorder_traverse (red_black_tree.py).          *)
(***************************************************************************)
\* traversal._inorder_traverse(node, output): the pairs it appends.  A
\* LeafNode is true and has no key.
RECURSIVE TR_inorder_traverse(_, _, _)
TR_inorder_traverse(m, node, fuel) ==
  IF node = None THEN Ret("ok", <<>>)
  ELSE IF fuel = 0 THEN Ret("RecursionError", <<>>)
  ELSE IF node = NIL
    THEN LET l == TR_inorder_traverse(m, m.nil.left, fuel - 1)
         IN IF l.st # "ok" THEN l ELSE Ret("AttributeError", <<>>)
  ELSE
    LET l == TR_inorder_traverse(m, m.h[node].left, fuel - 1)
        r == TR_inorder_traverse(m, m.h[node].right, fuel - 1)
    IN IF l.st # "ok" THEN l
       ELSE IF r.st # "ok" THEN r
       ELSE Ret("ok", l.val \o <<<<m.h[node].key, m.h[node].data>>>> \o r.val)

\* traversal.inorder_traverse(tree, recursive=True)
TRinorder_traverse(m) ==
  IF m.root = Unset THEN Ret("AttributeError", <<>>)
  ELSE TR_inorder_traverse(m, m.root, Fuel(m))

\* RBTree._inorder_traverse(node): the pairs the generator yields
RECURSIVE RB_inorder_traverse(_, _, _)
RB_inorder_traverse(m, node, fuel) ==
  IF ~IsNode(m, node) THEN Ret("ok", <<>>)
  ELSE IF fuel = 0 THEN Ret("RecursionError", <<>>)
  ELSE
    LET l == RB_inorder_traverse(m, m.h[node].left, fuel - 1)
        r == RB_inorder_traverse(m, m.h[node].right, fuel - 1)
    IN IF l.st # "ok" THEN l
       ELSE IF r.st # "ok" THEN r
       ELSE Ret("ok", l.val \o <<<<m.h[node].key, m.h[node].data>>>> \o r.val)

\* RBTree.inorder_traverse()
RBinorder_traverse(m) == RB_inorder_traverse(m, m.root, Fuel(m))

(***************************************************************************)
(* The other traversals of traversal.py: the non-recursive in-order, the   *)
(* out-order and the post-order traversals in both modes, and the          *)
(* recursive pre-order traversal.  A loop that does not end is "hang".      *)
(***************************************************************************)
\* the iterations after which a loop of a traversal is taken not to end
TravFuel(m) == 6 * Cardinality(Ids(m)) + 6

Pair(m, node) == <<m.h[node].key, m.h[node].data>>

Top(stack) == stack[Len(stack)]

Pop(stack) == SubSeq(stack, 1, Len(stack) - 1)

\* the while loop of traversal._inorder_traverse_non_recursive
RECURSIVE TR_inorder_loop(_, _, _, _, _)
TR_inorder_loop(m, current, stack, output, fuel) ==
  IF fuel = 0 THEN Ret("hang", output)
  ELSE IF current # None THEN
    IF m.h[current].right # None
    THEN TR_inorder_loop(m, m.h[current].left,
                         stack \o <<m.h[current].right, current>>,
                         output, fuel - 1)
    ELSE TR_inorder_loop(m, None, Append(stack, current), output, fuel - 1)
  ELSE IF Len(stack) > 0 THEN
    LET cur == Top(stack)
        rest == Pop(stack)
    IN IF m.h[cur].right = None
       THEN TR_inorder_loop(m, None, rest, Append(output, Pair(m, cur)),
                            fuel - 1)
       ELSE IF Len(rest) > 0 THEN
         IF NodeEq(m.h[cur].right, Top(rest))
         THEN TR_inorder_loop(m, None, rest, Append(output, Pair(m, cur)),
                              fuel - 1)
         ELSE TR_inorder_loop(m, cur, rest, output, fuel - 1)
       ELSE TR_inorder_loop(m, cur, rest, output, fuel - 1)
  ELSE Ret("ok", output)

\* traversal._inorder_traverse_non_recursive(root)
TR_inorder_traverse_non_recursive(m, node) ==
  IF node = None THEN Ret("ok", <<>>)
  ELSE TR_inorder_loop(m, m.h[node].left,
                       IF m.h[node].right # None
                       THEN <<m.h[node].right, node>> ELSE <<>>,
                       <<>>, TravFuel(m))

\* traversal.inorder_traverse(tree, recursive=False)
TRinorder_traverse_non_recursive(m) ==
  IF m.root = Unset THEN Ret("AttributeError", <<>>)
  ELSE TR_inorder_traverse_non_recursive(m, m.root)

\* traversal._outorder_traverse(node, output): the pairs it appends
RECURSIVE TR_outorder_traverse(_, _, _)
TR_outorder_traverse(m, node, fuel) ==
  IF node = None THEN Ret("ok", <<>>)
  ELSE IF fuel = 0 THEN Ret("RecursionError", <<>>)
  ELSE IF node = NIL
    THEN LET r == TR_outorder_traverse(m, m.nil.right, fuel - 1)
         IN IF r.st # "ok" THEN r ELSE Ret("AttributeError", <<>>)
  ELSE
    LET r == TR_outorder_traverse(m, m.h[node].right, fuel - 1)
        l == TR_outorder_traverse(m, m.h[node].left, fuel - 1)
    IN IF r.st # "ok" THEN r
       ELSE IF l.st # "ok" THEN l
       ELSE Ret("ok", r.val \o <<Pair(m, node)>> \o l.val)

\* the while loop of traversal._outorder_traverse_non_recursive
RECURSIVE TR_outorder_loop(_, _, _, _, _)
TR_outorder_loop(m, current, stack, output, fuel) ==
  IF fuel = 0 THEN Ret("hang", output)
  ELSE IF current # None THEN
    IF m.h[current].left # None
    THEN TR_outorder_loop(m, m.h[current].right,
                          stack \o <<m.h[current].left, current>>,
                          output, fuel - 1)
    ELSE TR_outorder_loop(m, None, Append(stack, current), output, fuel - 1)
  ELSE IF Len(stack) > 0 THEN
    LET cur == Top(stack)
        rest == Pop(stack)
    IN IF m.h[cur].left = None
       THEN TR_outorder_loop(m, None, rest, Append(output, Pair(m, cur)),
                             fuel - 1)
       ELSE IF Len(rest) > 0 THEN
         IF NodeEq(m.h[cur].left, Top(rest))
         THEN TR_outorder_loop(m, None, rest, Append(output, Pair(m, cur)),
                               fuel - 1)
         ELSE TR_outorder_loop(m, cur, rest, output, fuel - 1)
       ELSE TR_outorder_loop(m, cur, rest, output, fuel - 1)
  ELSE Ret("ok", output)

\* traversal._outorder_traverse_non_recursive(root)
TR_outorder_traverse_non_recursive(m, node) ==
  IF node = None THEN Ret("ok", <<>>)
  ELSE TR_outorder_loop(m, m.h[node].right,
                        IF m.h[node].left # None
                        THEN <<m.h[node].left, node>> ELSE <<>>,
                        <<>>, TravFuel(m))

\* traversal.outorder_traverse(tree, recursive)
TRoutorder_traverse(m, recursive) ==
  IF m.root = Unset THEN Ret("AttributeError", <<>>)
  ELSE IF recursive THEN TR_outorder_traverse(m, m.root, Fuel(m))
  ELSE TR_outorder_traverse_non_recursive(m, m.root)

\* traversal._postorder_traverse(node, output): the pairs it appends
RECURSIVE TR_postorder_traverse(_, _, _)
TR_postorder_traverse(m, node, fuel) ==
  IF node = None THEN Ret("ok", <<>>)
  ELSE IF fuel = 0 THEN Ret("RecursionError", <<>>)
  ELSE IF node = NIL
    THEN LET l == TR_postorder_traverse(m, m.nil.left, fuel - 1)
             r == TR_postorder_traverse(m, m.nil.right, fuel - 1)
         IN IF l.st # "ok" THEN l
            ELSE IF r.st # "ok" THEN r
            ELSE Ret("AttributeError", <<>>)
  ELSE
    LET l == TR_postorder_traverse(m, m.h[node].left, fuel - 1)
        r == TR_postorder_traverse(m, m.h[node].right, fuel - 1)
    IN IF l.st # "ok" THEN l
       ELSE IF r.st # "ok" THEN r
       ELSE Ret("ok", l.val \o r.val \o <<Pair(m, node)>>)

\* the while loop of traversal._postorder_traverse_non_recursive
RECURSIVE TR_postorder_loop(_, _, _, _, _)
TR_postorder_loop(m, current, stack, output, fuel) ==
  IF fuel = 0 THEN Ret("hang", output)
  ELSE IF current # None THEN
    IF m.h[current].right # None
    THEN TR_postorder_loop(m, m.h[current].left,
                           stack \o <<m.h[current].right, current>>,
                           output, fuel - 1)
    ELSE TR_postorder_loop(m, None, stack, Append(output, Pair(m, current)),
                           fuel - 1)
  ELSE IF Len(stack) > 0 THEN
    LET cur == Top(stack)
        rest == Pop(stack)
    IN IF m.h[cur].right = None
       THEN TR_postorder_loop(m, None, rest, Append(output, Pair(m, cur)),
                              fuel - 1)
       ELSE IF Len(rest) > 0 THEN
         IF ~NodeEq(m.h[cur].right, Top(rest))
         THEN TR_postorder_loop(m, None, rest, Append(output, Pair(m, cur)),
                                fuel - 1)
         ELSE TR_postorder_loop(m, Top(rest), Append(Pop(rest), cur), output,
                                fuel - 1)
       ELSE Ret("ok", Append(output, Pair(m, cur)))
  ELSE TR_postorder_loop(m, None, stack, output, fuel - 1)

\* traversal._postorder_traverse_non_recursive(root)
TR_postorder_traverse_non_recursive(m, node) ==
  IF node = None THEN Ret("ok", <<>>)
  ELSE TR_postorder_loop(m, m.h[node].left,
                         (IF m.h[node].right # None
                          THEN <<m.h[node].right>> ELSE <<>>) \o <<node>>,
                         <<>>, TravFuel(m))

\* traversal.postorder_traverse(tree, recursive)
TRpostorder_traverse(m, recursive) ==
  IF m.root = Unset THEN Ret("AttributeError", <<>>)
  ELSE IF recursive THEN TR_postorder_traverse(m, m.root, Fuel(m))
  ELSE TR_postorder_traverse_non_recursive(m, m.root)

\* traversal._preorder_traverse(node, output): the pairs it appends
RECURSIVE TR_preorder_traverse(_, _, _)
TR_preorder_traverse(m, node, fuel) ==
  IF node = None THEN Ret("ok", <<>>)
  ELSE IF fuel = 0 THEN Ret("RecursionError", <<>>)
  ELSE IF node = NIL THEN Ret("AttributeError", <<>>)
  ELSE
    LET l == TR_preorder_traverse(m, m.h[node].left, fuel - 1)
        r == TR_preorder_traverse(m, m.h[node].right, fuel - 1)
    IN IF l.st # "ok" THEN l
       ELSE IF r.st # "ok" THEN r
       ELSE Ret("ok", <<Pair(m, node)>> \o l.val \o r.val)

\* traversal.preorder_traverse(tree, recursive=True)
TRpreorder_traverse(m) ==
  IF m.root = Unset THEN Ret("AttributeError", <<>>)
  ELSE TR_preorder_traverse(m, m.root, Fuel(m))

\* the while loop of traversal._preorder_traverse_non_recursive
RECURSIVE TR_preorder_loop(_, _, _, _)
TR_preorder_loop(m, stack, output, fuel) ==
  IF Len(stack) = 0 THEN Ret("ok", output)
  ELSE IF fuel = 0 THEN Ret("hang", <<>>)
  ELSE
    LET temp == Top(stack)
        s1 == Pop(stack)
    IN IF temp \notin Ids(m) THEN Ret("AttributeError", <<>>)
       ELSE
         LET s2 == IF m.h[temp].right # None
                     THEN Append(s1, m.h[temp].right) ELSE s1
             s3 == IF m.h[temp].left # None
                     THEN Append(s2, m.h[temp].left) ELSE s2
         IN TR_preorder_loop(m, s3, Append(output, Pair(m, temp)), fuel - 1)

\* traversal._preorder_traverse_non_recursive(root)
TR_preorder_traverse_non_recursive(m, node) ==
  IF node = None THEN Ret("ok", <<>>)
  ELSE TR_preorder_loop(m, <<node>>, <<>>, TravFuel(m))

\* traversal.preorder_traverse(tree, recursive=False)
TRpreorder_traverse_non_recursive(m) ==
  IF m.root = Unset THEN Ret("AttributeError", <<>>)
  ELSE TR_preorder_traverse_non_recursive(m, m.root)

\* the while loop of traversal.levelorder_traverse.  The node taken from the
\* queue is read (temp.key) before anything is tested: None and the LeafNode
\* have no key.
RECURSIVE TR_levelorder_loop(_, _, _, _)
TR_levelorder_loop(m, queue, output, fuel) ==
  IF Len(queue) = 0 THEN Ret("ok", output)
  ELSE IF fuel = 0 THEN Ret("hang", <<>>)
  ELSE
    LET temp == Head(queue)
        q1 == Tail(queue)
    IN IF temp \notin Ids(m) THEN Ret("AttributeError", <<>>)
       ELSE
         LET q2 == IF m.h[temp].left # None
                     THEN Append(q1, m.h[temp].left) ELSE q1
             q3 == IF m.h[temp].right # None
                     THEN Append(q2, m.h[temp].right) ELSE q2
         IN TR_levelorder_loop(m, q3, Append(output, Pair(m, temp)), fuel - 1)

\* traversal.levelorder_traverse(tree)
TRlevelorder_traverse(m) ==
  IF m.root = Unset THEN Ret("AttributeError", <<>>)
  ELSE TR_levelorder_loop(m, <<m.root>>, <<>>, TravFuel(m))

(***************************************************************************)
(* The tree instance and its calls.                                        *)
(*   kind      the class of the tree                                       *)
(*   heap, root, size, nil   the objects and the tree's attributes         *)
(*   status    how the last call ended: "ok", the exception raised, "hang" *)
(*   lastOp    the last call                                               *)
(*   model     for every key, the data of the last insert(key, data) that  *)
(*             returned normally and was not followed by a delete(key)     *)
(*             that returned normally; 0 when key was never inserted,      *)
(*             Gone when its last insert was followed by such a delete     *)
(*   noDelete  no delete has been called                                   *)
(*   clean     every delete call so far returned normally                  *)
(*   budget    the delete calls the run may still make                     *)
(*   distinct  no insert named a key that an earlier insert had stored     *)
(***************************************************************************)
Cur == [h |-> heap, root |-> root, size |-> size, nil |-> nil, st |-> "ok"]

MaxKeyOf(k) ==
  IF k = "BST" THEN MaxKeyBST
  ELSE IF k \in {"AVL", "RB"} THEN MaxKeyBal
  ELSE MaxKeyThr

KeysOf(k) == 1..MaxKeyOf(k)

Keys == KeysOf(kind)

\* The data values an insert of key may carry: opaque values, none of them
\* shared by two keys, none of them 0.
DataOf(key) == {key + MaxKeyOf(kind) * j : j \in 1..MaxData}

\* budget: any number of delete calls
NoLimit == MaxDeletes + 1

\* model[key] of a key that was inserted and then deleted
Gone == 0 - 1

\* key is not stored according to the calls so far
Absent(key) == model[key] \in {0, Gone}

\* The truth value Python gives a constructor argument in "if key and data":
\* None, the number 0 and the empty string are false.  The value 0 stands for
\* them here.
Truthy(v) == v # 0

\* BinarySearchTree.__init__(key, data) on the attributes of the new object
BSTinit(m, key, data) ==
  LET n == NewId(m, key)
      m1 == IF Truthy(key) /\ Truthy(data)
              THEN [m EXCEPT !.root = n,
                             !.h[n] = NewNode(key, data, None, None, None, Black)]
              ELSE m
  IN [m1 EXCEPT !.size = IF Truthy(key) /\ Truthy(data) THEN 1 ELSE 0]

\* AVLTree.__init__(key, data) and the constructors of the threaded trees,
\* after BinaryTree.__init__ has set root to None
BTinit(m, key, data) ==
  LET n == NewId(m, key)
      m1 == [m EXCEPT !.root = None]
  IN IF Truthy(key) /\ Truthy(data)
       THEN [m1 EXCEPT !.root = n,
                       !.h[n] = NewNode(key, data, None, None, None, Black)]
       ELSE m1

\* RBTree.__init__(key, data)
RBinit(m, key, data) ==
  LET n == NewId(m, key)
      m1 == [m EXCEPT !.nil = NilInit, !.root = NIL]
  IN IF Truthy(key) /\ Truthy(data)
       THEN [m1 EXCEPT !.root = n,
                       !.h[n] = NewNode(key, data, NIL, NIL, NIL, Black)]
       ELSE m1

\* The object before its constructor has run: no attribute is set.
Unbuilt(k) ==
  Mach([i \in 1..(MaxKeyOf(k) + Spare) |-> Blank], Unset, 0, NilInit)

\* cls(key, data) for the class k
Construct(k, key, data) ==
  IF k = "BST" THEN BSTinit(Unbuilt(k), key, data)
  ELSE IF k = "RB" THEN RBinit(Unbuilt(k), key, data)
  ELSE BTinit(Unbuilt(k), key, data)

\* a tree of one of the kinds right after construction
InitTree(kinds) ==
  /\ kind \in kinds
  /\ heap = [i \in 1..(MaxKeyOf(kind) + Spare) |-> Blank]
  /\ root = IF kind = "RB" THEN NIL ELSE IF kind = "BST" THEN Unset ELSE None
  /\ size = 0
  /\ nil = NilInit
  /\ status = "init"
  /\ lastOp = [op |-> "none", key |-> 0]
  /\ model = [k \in KeysOf(kind) |-> 0]
  /\ noDelete = TRUE
  /\ clean = TRUE
  /\ distinct = TRUE

InitOf(kinds) ==
  /\ InitTree(kinds)
  /\ budget = IF kind \in {"AVL", "DT"} THEN NoLimit ELSE MaxDeletes

\* The call op(key[, data]) has run and left m.
Commit(m, op, key, data) ==
  LET c == IF m.st = "hang" THEN Cur ELSE Collect(m)
  IN /\ heap' = c.h
     /\ root' = c.root
     /\ size' = c.size
     /\ nil' = c.nil
     /\ status' = m.st
     /\ lastOp' = [op |-> op, key |-> key]
     /\ model' = IF m.st # "ok" THEN model
                 ELSE IF op = "insert" THEN [model EXCEPT ![key] = data]
                 ELSE IF Absent(key) THEN model
                 ELSE [model EXCEPT ![key] = Gone]
     /\ distinct' = (distinct /\ (op = "insert" => model[key] = 0))
     /\ noDelete' = (noDelete /\ op # "delete")
     /\ clean' = (clean /\ (op = "delete" => m.st = "ok"))
     /\ budget' = IF op = "delete" /\ budget \in 1..MaxDeletes
                  THEN budget - 1 ELSE budget
     /\ UNCHANGED kind

\* A call that never returns ends the run.  A call that dies of an internal
\* error (an attribute of None, a recursion too deep, the "should never
\* happen" branches) leaves the tree half updated; the tree is given up then.
Usable ==
  status \notin {"hang", "AttributeError", "RecursionError", "RuntimeError"}

\* tree.insert(key, data) on a BinarySearchTree, any key
BSTInsert ==
  /\ kind = "BST"
  /\ Usable
  /\ \E k \in Keys : \E d \in DataOf(k) : Commit(BSTinsert(Cur, k, d), "insert", k, d)

\* tree.delete(key) on a BinarySearchTree, any key
BSTDelete ==
  /\ kind = "BST"
  /\ Usable
  /\ budget # 0
  /\ \E k \in Keys : Commit(BSTdelete(Cur, k), "delete", k, 0)

\* tree.insert(key, data) on an AVLTree, a key not in the tree
AVLInsert ==
  /\ kind = "AVL"
  /\ Usable
  /\ \E k \in Keys : \E d \in DataOf(k) :
       /\ Absent(k)
       /\ Commit(AVLinsert(Cur, k, d), "insert", k, d)

\* tree.delete(key) on an AVLTree, a key in the tree
AVLDelete ==
  /\ kind = "AVL"
  /\ Usable
  /\ budget # 0
  /\ \E k \in Keys :
       /\ ~Absent(k)
       /\ Commit(AVLdelete(Cur, k), "delete", k, 0)

\* tree.insert(key, data) on an RBTree, a key not in the tree
RBInsert ==
  /\ kind = "RB"
  /\ Usable
  /\ \E k \in Keys : \E d \in DataOf(k) :
       /\ Absent(k)
       /\ Commit(RBinsert(Cur, k, d), "insert", k, d)

\* tree.delete(key) on an RBTree, a key in the tree
RBDelete ==
  /\ kind = "RB"
  /\ Usable
  /\ budget # 0
  /\ \E k \in Keys :
       /\ ~Absent(k)
       /\ Commit(RBdelete(Cur, k), "delete", k, 0)

\* tree.insert(key, data) on a RightThreadedBinaryTree, a key not stored
RTInsert ==
  /\ kind = "RT"
  /\ Usable
  /\ \E k \in Keys : \E d \in DataOf(k) :
       /\ Absent(k)
       /\ Commit(RTinsert(Cur, k, d), "insert", k, d)

\* tree.delete(key) on a RightThreadedBinaryTree, a stored key
RTDelete ==
  /\ kind = "RT"
  /\ Usable
  /\ budget # 0
  /\ \E k \in Keys :
       /\ ~Absent(k)
       /\ Commit(RTdelete(Cur, k), "delete", k, 0)

\* tree.insert(key, data) on a LeftThreadedBinaryTree, a key not stored
LTInsert ==
  /\ kind = "LT"
  /\ Usable
  /\ \E k \in Keys : \E d \in DataOf(k) :
       /\ Absent(k)
       /\ Commit(LTinsert(Cur, k, d), "insert", k, d)

\* tree.delete(key) on a LeftThreadedBinaryTree, a stored key
LTDelete ==
  /\ kind = "LT"
  /\ Usable
  /\ budget # 0
  /\ \E k \in Keys :
       /\ ~Absent(k)
       /\ Commit(LTdelete(Cur, k), "delete", k, 0)

\* tree.insert(key, data) on a DoubleThreadedBinaryTree, a key not stored
DTInsert ==
  /\ kind = "DT"
  /\ Usable
  /\ \E k \in Keys : \E d \in DataOf(k) :
       /\ Absent(k)
       /\ Commit(DTinsert(Cur, k, d), "insert", k, d)

\* tree.delete(key) on a DoubleThreadedBinaryTree, a stored key
DTDelete ==
  /\ kind = "DT"
  /\ Usable
  /\ budget # 0
  /\ \E k \in Keys :
       /\ ~Absent(k)
       /\ Commit(DTdelete(Cur, k), "delete", k, 0)

InitBST == InitOf({"BST"})

NextBST == BSTInsert \/ BSTDelete

SpecBST == InitBST /\ [][NextBST]_vars

InitAVL == InitOf({"AVL"})

NextAVL == AVLInsert \/ AVLDelete

SpecAVL == InitAVL /\ [][NextAVL]_vars

InitRB == InitOf({"RB"})

NextRB == RBInsert \/ RBDelete

SpecRB == InitRB /\ [][NextRB]_vars

InitRT == InitOf({"RT"})

NextRT == RTInsert \/ RTDelete

SpecRT == InitRT /\ [][NextRT]_vars

InitLT == InitOf({"LT"})

NextLT == LTInsert \/ LTDelete

SpecLT == InitLT /\ [][NextLT]_vars

InitDT == InitOf({"DT"})

NextDT == DTInsert \/ DTDelete

SpecDT == InitDT /\ [][NextDT]_vars

\* tree.insert(key, data) with a key that is stored
AVLInsertPresent ==
  /\ kind = "AVL"
  /\ Usable
  /\ \E k \in Keys : \E d \in DataOf(k) :
       /\ ~Absent(k)
       /\ Commit(AVLinsert(Cur, k, d), "insert", k, d)

RTInsertPresent ==
  /\ kind = "RT"
  /\ Usable
  /\ \E k \in Keys : \E d \in DataOf(k) :
       /\ ~Absent(k)
       /\ Commit(RTinsert(Cur, k, d), "insert", k, d)

LTInsertPresent ==
  /\ kind = "LT"
  /\ Usable
  /\ \E k \in Keys : \E d \in DataOf(k) :
       /\ ~Absent(k)
       /\ Commit(LTinsert(Cur, k, d), "insert", k, d)

DTInsertPresent ==
  /\ kind = "DT"
  /\ Usable
  /\ \E k \in Keys : \E d \in DataOf(k) :
       /\ ~Absent(k)
       /\ Commit(DTinsert(Cur, k, d), "insert", k, d)

\* An RBTree insert makes a new node whatever the key: a key is inserted
\* again only while a slot stays free for every key not stored.
RBInsertPresent ==
  /\ kind = "RB"
  /\ Usable
  /\ Cardinality(Free(Cur)) > Cardinality({k \in Keys : Absent(k)})
  /\ \E k \in Keys : \E d \in DataOf(k) :
       /\ ~Absent(k)
       /\ Commit(RBinsert(Cur, k, d), "insert", k, d)

\* Runs of inserts alone on a BinarySearchTree, an AVLTree or an RBTree.
InitInserts == InitOf({"BST", "AVL", "RB"})

NextInserts == BSTInsert \/ AVLInsert \/ RBInsert

SpecInserts == InitInserts /\ [][NextInserts]_vars

\* Runs of inserts and deletes on an AVLTree or an RBTree.
InitBalanced == InitOf({"AVL", "RB"})

NextBalanced == AVLInsert \/ AVLDelete \/ RBInsert \/ RBDelete

SpecBalanced == InitBalanced /\ [][NextBalanced]_vars

\* Runs in which insert is also called with keys that are stored, with at
\* most MaxDupDeletes deletes.
InitDup ==
  /\ InitTree({"BST", "AVL", "RT", "LT", "DT"})
  /\ budget = MaxDupDeletes

NextDup ==
  \/ BSTInsert \/ BSTDelete
  \/ AVLInsert \/ AVLInsertPresent \/ AVLDelete
  \/ RTInsert \/ RTInsertPresent \/ RTDelete
  \/ LTInsert \/ LTInsertPresent \/ LTDelete
  \/ DTInsert \/ DTInsertPresent \/ DTDelete

SpecDup == InitDup /\ [][NextDup]_vars

\* Runs of inserts alone on an RBTree, also with keys that are stored.
InitRBDup ==
  /\ InitTree({"RB"})
  /\ budget = 0

NextRBDup == RBInsert \/ RBInsertPresent

SpecRBDup == InitRBDup /\ [][NextRBDup]_vars

\* Trees constructed with a seed pair (key, data), then runs of inserts.  The
\* seed keys are 0..MaxSeedKey and the seed data 0 (a false value) or the
\* data of an insert; lastOp holds the arguments of the constructor call.
SeedKeys == 0..MaxSeedKey

SeedData(key) == {0} \cup {key + MaxKeyOf(kind) * j : j \in 1..MaxData}

InitSeed ==
  /\ kind \in {"BST", "AVL", "RB", "RT", "LT", "DT"}
  /\ \E key \in SeedKeys : \E data \in SeedData(key) :
       LET m == Construct(kind, key, data)
       IN /\ heap = m.h
          /\ root = m.root
          /\ size = m.size
          /\ nil = m.nil
          /\ lastOp = [op |-> "init", key |-> key, data |-> data]
          /\ model = [k \in KeysOf(kind) |->
                        IF k = key /\ m.root \in DOMAIN m.h THEN data ELSE 0]
  /\ status = "ok"
  /\ noDelete = TRUE
  /\ clean = TRUE
  /\ distinct = TRUE
  /\ budget = 0

NextSeed ==
  \/ BSTInsert \/ AVLInsert \/ RBInsert \/ RTInsert \/ LTInsert \/ DTInsert

SpecSeed == InitSeed /\ [][NextSeed]_vars

\* Runs of inserts and deletes on a BinarySearchTree or an AVLTree, the two
\* trees whose nodes carry parent links and None for a missing child.
InitLinked == InitOf({"BST", "AVL"})

NextLinked == BSTInsert \/ BSTDelete \/ AVLInsert \/ AVLDelete

SpecLinked == InitLinked /\ [][NextLinked]_vars

\* The run of test_simple_case (test_binary_search_tree.py): the keys it
\* inserts and then the keys it deletes, in its order.
ScenarioInserts == <<23, 4, 30, 11, 7, 34, 20, 24, 22, 15, 1>>

ScenarioDeletes == <<15, 22, 7, 20>>

ScenarioKeys == {ScenarioInserts[i] : i \in DOMAIN ScenarioInserts}

\* the data a key is inserted with: one of two values no other key has
ScenarioData(key) == {2 * key, 2 * key + 1}

\* the calls of the run that have returned normally
ScenarioInserted == Cardinality({k \in ScenarioKeys : model[k] # 0})

ScenarioDeleted == Cardinality({k \in ScenarioKeys : model[k] = Gone})

InitScenario ==
  /\ kind = "BST"
  /\ heap = [i \in 1..(Len(ScenarioInserts) + Spare) |-> Blank]
  /\ root = Unset
  /\ size = 0
  /\ nil = NilInit
  /\ status = "init"
  /\ lastOp = [op |-> "none", key |-> 0]
  /\ model = [k \in ScenarioKeys |-> 0]
  /\ noDelete = TRUE
  /\ clean = TRUE
  /\ distinct = TRUE
  /\ budget = NoLimit

\* the next insert of the run
ScenarioInsert ==
  /\ Usable
  /\ ScenarioInserted < Len(ScenarioInserts)
  /\ LET k == ScenarioInserts[ScenarioInserted + 1]
     IN \E d \in ScenarioData(k) : Commit(BSTinsert(Cur, k, d), "insert", k, d)

\* the next delete of the run, once every key is inserted
ScenarioDelete ==
  /\ Usable
  /\ ScenarioInserted = Len(ScenarioInserts)
  /\ ScenarioDeleted < Len(ScenarioDeletes)
  /\ LET k == ScenarioDeletes[ScenarioDeleted + 1]
     IN Commit(BSTdelete(Cur, k), "delete", k, 0)

NextScenario == ScenarioInsert \/ ScenarioDelete

SpecScenario == InitScenario /\ [][NextScenario]_vars

(***************************************************************************)
(* What the calls so far should have stored.                                *)
(***************************************************************************)
\* the (key, data) pairs stored, from key k on in ascending key order
RECURSIVE StoredFrom(_)
StoredFrom(k) ==
  IF k > MaxKeyOf(kind) THEN <<>>
  ELSE (IF Absent(k) THEN <<>> ELSE <<<<k, model[k]>>>>) \o StoredFrom(k + 1)

Stored == StoredFrom(1)

KeysIn(pairs) == [i \in DOMAIN pairs |-> pairs[i][1]]

Reverse(seq) == [i \in DOMAIN seq |-> seq[Len(seq) + 1 - i]]

\* the recursive in-order traversal of the tree
Inorder == IF kind = "RB" THEN RBinorder_traverse(Cur) ELSE TRinorder_traverse(Cur)

\* search(key): how the call ends, and the data it finds
Search(key) ==
  IF kind = "BST" THEN BSTsearch(Cur, key)
  ELSE LET r == IF kind = "AVL" THEN AVLsearch(Cur, key) ELSE RBsearch(Cur, key)
       IN IF r.st = "ok" THEN Ret("ok", heap[r.val].data) ELSE r

C2_SearchFindsStored ==
  kind = "BST" =>
    \A k \in Keys : ~Absent(k) => Search(k) = Ret("ok", model[k])

RECURSIVE Below(_)
Below(S) ==
  LET T == S \cup (UNION {{heap[i].left, heap[i].right} : i \in S}
                   \cap DOMAIN heap)
  IN IF T = S THEN S ELSE Below(T)

TreeNodes == Below({root} \cap DOMAIN heap)

\* |get_height(n.left) - get_height(n.right)| <= 1 at every node, get_height
\* the AVLTree's own
AVLBalanced ==
  \A n \in TreeNodes :
    LET d == AVLget_height(Cur, heap[n].left) - AVLget_height(Cur, heap[n].right)
    IN d \in {-1, 0, 1}

\* C4: after every insert in a run of inserts of distinct keys into an
\* AVLTree, the insert has returned normally and every node is balanced by
\* the tree's own get_height.
C4_AVLBalancedAfterInsert ==
  (kind = "AVL" /\ noDelete /\ distinct /\ lastOp.op = "insert") =>
    /\ status = "ok"
    /\ AVLBalanced

\* C4 witness: every key inserted, the root with a grandchild.
C4_Witness ==
  /\ kind = "AVL" /\ noDelete /\ distinct /\ status = "ok"
  /\ Len(Stored) = MaxKeyBal
  /\ AVLget_height(Cur, root) >= 2
  /\ AVLBalanced

\* C5: after every delete of a present key that completed on an AVLTree,
\* every remaining node is balanced by the tree's own get_height.
C5_AVLBalancedAfterDelete ==
  (kind = "AVL" /\ distinct /\ lastOp.op = "delete" /\ status = "ok") =>
    AVLBalanced

\* C5: every delete of a present key on an AVLTree completes.
C5_AVLDeleteCompletes ==
  (kind = "AVL" /\ distinct /\ lastOp.op = "delete") => status = "ok"

\* the colour of a child link's target: a LeafNode counts as Black
ColorOf(x) == IF x \in DOMAIN heap THEN heap[x].color ELSE Black

\* the number of Black nodes on every path from node down to a leaf, or -1
\* when two paths differ (or a path does not end)
RECURSIVE BlackHeight(_, _)
BlackHeight(node, fuel) ==
  IF node \notin DOMAIN heap THEN 0
  ELSE IF fuel = 0 THEN 0 - 1
  ELSE
    LET l == BlackHeight(heap[node].left, fuel - 1)
        r == BlackHeight(heap[node].right, fuel - 1)
    IN IF l < 0 \/ r < 0 \/ l # r THEN 0 - 1
       ELSE l + (IF heap[node].color = Black THEN 1 ELSE 0)

RBRootBlack == ColorOf(root) = Black

RBNoRedRed ==
  \A n \in TreeNodes :
    heap[n].color = Red =>
      ColorOf(heap[n].left) = Black /\ ColorOf(heap[n].right) = Black

RBEqualBlack == BlackHeight(root, Fuel(Cur)) >= 0

RBInvariants == RBRootBlack /\ RBNoRedRed /\ RBEqualBlack

\* C6: after every insert in a run of inserts of distinct keys into an
\* RBTree, the insert has returned normally, the root is Black, no Red node
\* has a Red child and every path from the root to a leaf has the same number
\* of Black nodes.
C6_RBInvariantsAfterInsert ==
  (kind = "RB" /\ noDelete /\ distinct /\ lastOp.op = "insert") =>
    /\ status = "ok"
    /\ RBInvariants

\* C6 witness: every key inserted, a Red node among them.
C6_Witness ==
  /\ kind = "RB" /\ noDelete /\ distinct /\ status = "ok"
  /\ Len(Stored) = MaxKeyBal
  /\ \E n \in TreeNodes : heap[n].color = Red
  /\ RBInvariants

\* C7: after every delete of a present key that returned normally on an
\* RBTree, the root is Black or the tree is empty, no Red node has a Red
\* child and every path from the root to a leaf has the same number of Black
\* nodes.
C7_RBInvariantsAfterDelete ==
  (kind = "RB" /\ distinct /\ lastOp.op = "delete" /\ status = "ok") =>
    RBInvariants

\* C8: on a RightThreadedBinaryTree, after inserts of distinct keys and
\* deletes of present keys that all returned normally, inorder_traverse()
\* terminates and yields exactly the stored pairs in ascending key order.
C8_RTInorderIsStored ==
  (kind = "RT" /\ distinct /\ clean /\ status = "ok") =>
    RTinorder_traverse(Cur) = Ret("ok", Stored)

C10_LTDeleteAndOutorder ==
  (kind = "LT" /\ distinct) =>
    /\ lastOp.op = "delete" => status = "ok"
    /\ (clean /\ status = "ok") =>
         LToutorder_traverse(Cur) = Ret("ok", Reverse(Stored))

\* C11: on every BinarySearchTree that has been inserted into,
\* traversal.inorder_traverse(tree, recursive=False) returns the same sequence
\* of pairs as traversal.inorder_traverse(tree, recursive=True).
C11_InorderModesAgree ==
  (kind = "BST" /\ root # Unset) =>
    TRinorder_traverse_non_recursive(Cur) = TRinorder_traverse(Cur)

\* C12: on every BinarySearchTree that has been inserted into,
\* traversal.postorder_traverse(tree, recursive=False) terminates and returns
\* the same sequence of pairs as traversal.postorder_traverse(tree,
\* recursive=True).
C12_PostorderModesAgree ==
  (kind = "BST" /\ root # Unset) =>
    TRpostorder_traverse(Cur, FALSE) = TRpostorder_traverse(Cur, TRUE)

\* C13: on every BinarySearchTree that has been inserted into,
\* traversal.outorder_traverse returns, in its recursive and in its
\* non-recursive mode, the reverse of what the recursive
\* traversal.inorder_traverse returns.
C13_OutorderIsReverseInorder ==
  (kind = "BST" /\ root # Unset) =>
    \A recursive \in BOOLEAN :
      TRoutorder_traverse(Cur, recursive) =
        Ret("ok", Reverse(TRinorder_traverse(Cur).val))

\* the children of node i: a thread is not a child
Children(i) ==
  (IF (kind = "LT" /\ heap[i].isThread) \/ (kind = "DT" /\ heap[i].leftThread)
   THEN {} ELSE {heap[i].left})
  \cup
  (IF (kind = "RT" /\ heap[i].isThread) \/ (kind = "DT" /\ heap[i].rightThread)
   THEN {} ELSE {heap[i].right})

RECURSIVE Descend(_)
Descend(S) ==
  LET T == S \cup (UNION {Children(i) : i \in S} \cap DOMAIN heap)
  IN IF T = S THEN S ELSE Descend(T)

\* the nodes in the tree: the root and what it reaches over children
NodesInTree == Descend({root} \cap DOMAIN heap)

KeysInTree == {heap[i].key : i \in NodesInTree}

\* the error an insert of a key in the tree raises
DuplicateError == IF kind = "BST" THEN "ValueError" ELSE "DuplicateKeyError"

\* C14: on a BinarySearchTree, an AVLTree and the three threaded trees,
\* insert(key, data) with a key that is in the tree raises the duplicate-key
\* error of the class and leaves every node, every link, the data of the key
\* and the size as they were.
C14_DuplicateInsertRaises ==
  [][(lastOp'.op = "insert" /\ lastOp'.key \in KeysInTree) =>
       /\ status' = DuplicateError
       /\ heap' = heap /\ root' = root /\ size' = size /\ nil' = nil]_vars

\* C14 witness: a threaded tree of three nodes, one delete behind it, has
\* refused a key it holds.
C14_Witness ==
  /\ kind \in {"RT", "LT", "DT"}
  /\ lastOp.op = "insert" /\ status = "DuplicateKeyError"
  /\ lastOp.key \in KeysInTree
  /\ ~noDelete
  /\ Cardinality(NodesInTree) >= 3

\* C15: RBTree.insert(key, data) with a key that is in the tree raises
\* DuplicateKeyError and leaves the tree as it was, so that no two nodes of
\* an RBTree hold the same key.
C15_RBDuplicateInsertRaises ==
  [][(kind = "RB" /\ lastOp'.op = "insert" /\ lastOp'.key \in KeysInTree) =>
       /\ status' = "DuplicateKeyError"
       /\ heap' = heap /\ root' = root /\ size' = size /\ nil' = nil]_vars

\* C16: on a BinarySearchTree in every reachable state, the empty tree
\* included, search(key) for a key that is not in the tree raises KeyError,
\* and delete(key) for such a key raises KeyError and leaves the tree and its
\* size as they were.
C16_AbsentKeyRaises ==
  /\ [](\A k \in Keys \ KeysInTree : BSTsearch(Cur, k).st = "KeyError")
  /\ [][(lastOp'.op = "delete" /\ lastOp'.key \notin KeysInTree) =>
          /\ status' = "KeyError"
          /\ heap' = heap /\ root' = root /\ size' = size]_vars

\* C17: on a BinarySearchTree, delete(key) for a key that is in the tree
\* returns normally and removes the key, whichever node holds it, the root
\* included; neither "Node's parent cannot be None" (ValueError) nor "Fatal
\* error" (RuntimeError) is raised.
C17_DeletePresentKey ==
  [][(lastOp'.op = "delete" /\ lastOp'.key \in KeysInTree) =>
       /\ status' = "ok"
       /\ lastOp'.key \notin KeysInTree']_vars

\* C18: in every state a BinarySearchTree reaches by insert and delete calls,
\* size() is the number of nodes the root reaches, 0 on the empty tree.
C18_SizeIsNodeCount ==
  kind = "BST" => size = Cardinality(NodesInTree)

\* C19: on the BinarySearchTree of test_simple_case, after the eleven inserts
\* get_height() returns 5 and is_balance() returns False; after the four
\* deletes that follow get_height() returns 3 and is_balance() returns True.
C19_ScenarioHeights ==
  /\ (ScenarioInserted = Len(ScenarioInserts) /\ ScenarioDeleted = 0) =>
       /\ BSTget_height(Cur) = Ret("ok", 5)
       /\ BSTis_balance(Cur) = Ret("ok", FALSE)
  /\ ScenarioDeleted = Len(ScenarioDeletes) =>
       /\ BSTget_height(Cur) = Ret("ok", 3)
       /\ BSTis_balance(Cur) = Ret("ok", TRUE)

\* get_successor(n) and get_predecessor(n) of the tree at hand
GetSuccessor(n) ==
  IF kind = "RB" THEN RBget_successor(Cur, n) ELSE AVLget_successor(Cur, n)

GetPredecessor(n) ==
  IF kind = "RB" THEN RBget_predecessor(Cur, n) ELSE AVLget_predecessor(Cur, n)

\* The in-order neighbours of n by the keys: the nodes of the tree with the
\* smallest key above and the largest key below the key of n.
KeyAfter(n) ==
  {i \in TreeNodes : /\ heap[i].key > heap[n].key
                     /\ \A j \in TreeNodes :
                          heap[j].key > heap[n].key => heap[i].key <= heap[j].key}

KeyBefore(n) ==
  {i \in TreeNodes : /\ heap[i].key < heap[n].key
                     /\ \A j \in TreeNodes :
                          heap[j].key < heap[n].key => heap[i].key >= heap[j].key}

\* The call returned the one node of S, or no node (None, the leaf sentinel)
\* when S is empty.
ReturnsNodeOf(r, S) ==
  /\ r.st = "ok"
  /\ IF S = {} THEN r.val \notin DOMAIN heap ELSE r.val \in S

\* C20: in every state reached by inserts of distinct keys into an AVLTree or
\* an RBTree, for every node n of the tree get_successor(n) returns the node
\* with the smallest key greater than n.key and get_predecessor(n) the node
\* with the largest key smaller than n.key, and no node where there is none.
C20_NeighboursInOrder ==
  (kind \in {"AVL", "RB"} /\ noDelete /\ distinct) =>
    \A n \in TreeNodes :
      /\ ReturnsNodeOf(GetSuccessor(n), KeyAfter(n))
      /\ ReturnsNodeOf(GetPredecessor(n), KeyBefore(n))

\* The get_successor half of C20, which the code meets.
C20_SuccessorInOrder ==
  (kind \in {"AVL", "RB"} /\ noDelete /\ distinct) =>
    \A n \in TreeNodes : ReturnsNodeOf(GetSuccessor(n), KeyAfter(n))

\* C21: on every tree derived from BinaryTree (AVLTree, RBTree, the threaded
\* trees) the property empty is true exactly when the tree holds no keys.
C21_EmptyIffNoKeys ==
  kind \in {"AVL", "RB", "RT", "LT", "DT"} =>
    (BTempty(Cur) <=> KeysInTree = {})

\* C22: a tree constructed with a seed pair (key, data) has a root holding
\* exactly that pair and no other node, whatever the key and the data; on a
\* BinarySearchTree size() is then 1 and search(key) returns data.
C22_SeedIsRoot ==
  lastOp.op = "init" =>
    /\ root \in DOMAIN heap
    /\ heap[root].key = lastOp.key
    /\ heap[root].data = lastOp.data
    /\ NodesInTree = {root}
    /\ kind = "BST" =>
         /\ size = 1
         /\ BSTsearch(Cur, lastOp.key) = Ret("ok", lastOp.data)

\* The part of C22 the code meets: a seed whose key and data are both true
\* values.
C22_TruthySeedIsRoot ==
  (lastOp.op = "init" /\ Truthy(lastOp.key) /\ Truthy(lastOp.data)) =>
    /\ root \in DOMAIN heap
    /\ heap[root].key = lastOp.key
    /\ heap[root].data = lastOp.data
    /\ NodesInTree = {root}
    /\ kind = "BST" =>
         /\ size = 1
         /\ BSTsearch(Cur, lastOp.key) = Ret("ok", lastOp.data)

\* get_min and get_max called without a subtree node
GetMin ==
  IF kind = "BST" THEN BSTget_min(Cur)
  ELSE IF kind = "RB" THEN RBget_min_from(Cur, None)
  ELSE AVLget_min_from(Cur, None)

GetMax ==
  IF kind = "BST" THEN BSTget_max(Cur)
  ELSE IF kind = "RB" THEN RBget_max_from(Cur, None)
  ELSE AVLget_max_from(Cur, None)

\* C23: on a BinarySearchTree, an AVLTree or an RBTree that holds no keys,
\* get_min and get_max called without a subtree node raise EmptyTreeError.
C23_EmptyTreeError ==
  (kind \in {"BST", "AVL", "RB"} /\ KeysInTree = {}) =>
    /\ GetMin.st = "EmptyTreeError"
    /\ GetMax.st = "EmptyTreeError"

\* The part of C23 the code meets: AVLTree and RBTree.
C23_BalancedEmptyTreeError ==
  (kind \in {"AVL", "RB"} /\ KeysInTree = {}) =>
    /\ GetMin.st = "EmptyTreeError"
    /\ GetMax.st = "EmptyTreeError"

\* Parent links are the inverse of child links: the root has no parent, and
\* every child of a node of the tree has that node as its parent.
ParentsInverse ==
  /\ root \in DOMAIN heap => heap[root].parent = None
  /\ \A n \in NodesInTree :
       /\ heap[n].left # None => heap[heap[n].left].parent = n
       /\ heap[n].right # None => heap[heap[n].right].parent = n

\* C24: in every state reached by insert and delete calls on a
\* BinarySearchTree or an AVLTree the root's parent is None and every child
\* of a node reachable from the root has that node as its parent.
C24_ParentsInverse == kind \in {"BST", "AVL"} => ParentsInverse

\* C24 witness: an AVLTree after a delete that returned normally, with a node
\* that has two children and a grandchild of the root.
C24_Witness ==
  /\ kind = "AVL" /\ lastOp.op = "delete" /\ status = "ok"
  /\ ParentsInverse
  /\ \E n \in NodesInTree : heap[n].left # None /\ heap[n].right # None
  /\ \E n \in NodesInTree :
       heap[n].parent # None /\ heap[heap[n].parent].parent # None

\* The four depth-first traversals of the traversal module, in both modes,
\* return the empty sequence.
DepthFirstEmpty ==
  /\ TRinorder_traverse(Cur) = Ret("ok", <<>>)
  /\ TRinorder_traverse_non_recursive(Cur) = Ret("ok", <<>>)
  /\ TRoutorder_traverse(Cur, TRUE) = Ret("ok", <<>>)
  /\ TRoutorder_traverse(Cur, FALSE) = Ret("ok", <<>>)
  /\ TRpreorder_traverse(Cur) = Ret("ok", <<>>)
  /\ TRpreorder_traverse_non_recursive(Cur) = Ret("ok", <<>>)
  /\ TRpostorder_traverse(Cur, TRUE) = Ret("ok", <<>>)
  /\ TRpostorder_traverse(Cur, FALSE) = Ret("ok", <<>>)

\* C25: on a tree whose root is None every traversal of the traversal module,
\* levelorder_traverse included, returns the empty sequence and raises
\* nothing.
C25_TraversalsOfEmptyTree ==
  root = None =>
    /\ DepthFirstEmpty
    /\ TRlevelorder_traverse(Cur) = Ret("ok", <<>>)

\* The part of C25 the code meets: the depth-first traversals.
C25_DepthFirstOfEmptyTree == root = None => DepthFirstEmpty

\* C26: on a LeftThreadedBinaryTree reached by inserts alone, search(key)
\* ends for every key, with the node of the key when the key is in the tree
\* and with KeyNotFoundError when it is not, and delete(key) of a key that is
\* not in the tree ends with KeyNotFoundError.
C26_LTSearchTerminates ==
  (kind = "LT" /\ noDelete /\ lastOp.op = "insert") =>
    \A k \in Keys :
      IF k \in KeysInTree
        THEN LET r == BTsearch(Cur, k)
             IN r.st = "ok" /\ r.val \in NodesInTree /\ heap[r.val].key = k
        ELSE /\ BTsearch(Cur, k).st = "KeyNotFoundError"
             /\ LTdelete(Cur, k).st = "KeyNotFoundError"

\* The part of C26 the code meets: search of a key that is in the tree.
C26_LTSearchFindsPresent ==
  (kind = "LT" /\ noDelete /\ lastOp.op = "insert") =>
    \A k \in KeysInTree :
      LET r == BTsearch(Cur, k)
      IN r.st = "ok" /\ r.val \in NodesInTree /\ heap[r.val].key = k

\* C27: on an AVLTree, in every state reached by inserts and deletes, a
\* delete of a key that is in the tree returns normally.
C27_AVLDeleteReturns ==
  [][(kind = "AVL" /\ lastOp'.op = "delete" /\ lastOp'.key \in KeysInTree)
       => status' = "ok"]_vars

\* The height of the subtree at x in the standard sense: -1 for an empty
\* subtree, 0 for a single node.
RECURSIVE StdHeight(_)
StdHeight(x) ==
  IF x \notin DOMAIN heap THEN 0 - 1
  ELSE 1 + Max2(StdHeight(heap[x].left), StdHeight(heap[x].right))

\* at every node the standard heights of the two subtrees differ by at most 1
StdBalanced ==
  \A n \in TreeNodes :
    StdHeight(heap[n].left) - StdHeight(heap[n].right) \in {0 - 1, 0, 1}

\* C28: after inserts of distinct keys into an AVLTree, at every node the
\* heights of the left and right subtrees differ by at most 1, an empty
\* subtree counting as -1 and a single node as 0.
C28_AVLStandardBalance ==
  (kind = "AVL" /\ noDelete /\ distinct) => StdBalanced

\* The pre-order of the subtree at x over the real children: the node, its
\* real left subtree, its real right subtree; threads are not children.
RECURSIVE PreorderOf(_)
PreorderOf(x) ==
  IF x \notin DOMAIN heap THEN <<>>
  ELSE LET l == IF kind = "DT" /\ heap[x].leftThread THEN None ELSE heap[x].left
           r == IF (kind = "RT" /\ heap[x].isThread)
                   \/ (kind = "DT" /\ heap[x].rightThread)
                  THEN None ELSE heap[x].right
       IN <<<<heap[x].key, heap[x].data>>>> \o PreorderOf(l) \o PreorderOf(r)

\* preorder_traverse() of the threaded tree at hand
ThreadedPreorder ==
  IF kind = "DT" THEN DTpreorder_traverse(Cur) ELSE RTpreorder_traverse(Cur)

\* C29: on a RightThreadedBinaryTree or a DoubleThreadedBinaryTree built by
\* inserts of distinct keys, preorder_traverse() ends without error and
\* yields the stored pairs in pre-order, each exactly once.
C29_ThreadedPreorder ==
  (kind \in {"RT", "DT"} /\ noDelete /\ distinct) =>
    /\ ThreadedPreorder = Ret("ok", PreorderOf(root))
    /\ Len(PreorderOf(root)) = Len(Stored)

\* the node of the tree with the smallest key above the key of n, if any
NextByKey(n) ==
  {i \in NodesInTree :
     /\ heap[i].key > heap[n].key
     /\ \A j \in NodesInTree :
          heap[j].key > heap[n].key => heap[i].key <= heap[j].key}

\* C30: after inserts of distinct keys into a RightThreadedBinaryTree, the
\* right link of every node with isThread set is its in-order successor, the
\* right link of every other node is None or a real right child whose parent
\* is that node, and the right link is None at the node of the largest key
\* and nowhere else.
C30_RightThreads ==
  (kind = "RT" /\ noDelete /\ distinct) =>
    \A n \in NodesInTree :
      /\ heap[n].isThread => heap[n].right \in NextByKey(n)
      /\ (~heap[n].isThread /\ heap[n].right # None) =>
           /\ heap[n].right \in NodesInTree
           /\ heap[heap[n].right].parent = n
           /\ heap[heap[n].right].key > heap[n].key
      /\ heap[n].right = None <=> NextByKey(n) = {}

\* C30 witness: every key inserted, with a thread node and a node that has a
\* real right child among them.
C30_Witness ==
  /\ kind = "RT" /\ noDelete /\ distinct /\ status = "ok"
  /\ Cardinality(NodesInTree) = MaxKeyThr
  /\ \E n \in NodesInTree : heap[n].isThread /\ heap[n].right \in NextByKey(n)
  /\ \E n \in NodesInTree :
       /\ ~heap[n].isThread /\ heap[n].right # None
       /\ heap[heap[n].right].parent = n
  /\ \E n \in NodesInTree : heap[n].right = None /\ NextByKey(n) = {}

====
